---- MODULE Spec2Model ----
(***************************************************************************)
(* Meeting-Summarizer: the analytics engine, FreeAnalyticsEngine of        *)
(* Advanced-analytics.py, and the calendar service, FreeCalendarService of *)
(* CalenderIntegration.py, as a state machine: a meeting record is filled  *)
(* in and the methods of the engine and of the service are called on it;   *)
(* and the request handler analyze_audio_free of server.py, which runs     *)
(* both on the placeholder result of an upload.                            *)
(*                                                                         *)
(* Numbers are Python numbers.  A Python float is an IEEE-754 binary64     *)
(* value; it is modelled exactly, as sign * m * 2^e with m an odd natural  *)
(* of at most 53 bits held as a sequence of 15-bit limbs (least            *)
(* significant first), and every operation rounds to nearest, ties to      *)
(* even, as the hardware does.  Exponent overflow, underflow and           *)
(* subnormals are outside the model (the values stay far from both).       *)
(* A Python int that takes part in float arithmetic is the float of the    *)
(* same value.                                                             *)
(***************************************************************************)
EXTENDS Integers, Sequences, FiniteSets, TLC

VARIABLES
    meeting_data,       \* the record the operations are given
    op,                 \* the operation that ran last ("" before any)
    result,             \* what it returned, or the exception it raised
    meeting_history,    \* FreeAnalyticsEngine.meeting_history
    score,              \* the score a caller hands to _generate_engagement_recommendations
    services            \* server.py: which service classes come from the service files

vars == <<meeting_data, op, result, meeting_history, score, services>>

----------------------------------------------------------------------------
(* Naturals of any size: little-endian limbs, no leading zero limb.        *)

LimbBase == 2^15

MantBits == 50 + 3

BNorm(x) ==
    LET RECURSIVE top(_)
        top(n) == IF n = 0 THEN 0 ELSE IF x[n] # 0 THEN n ELSE top(n - 1)
    IN SubSeq(x, 1, top(Len(x)))

BFromNat(n) ==
    LET RECURSIVE go(_)
        go(k) == IF k = 0 THEN <<>> ELSE <<k % LimbBase>> \o go(k \div LimbBase)
    IN go(n)

BToNat(x) ==
    LET RECURSIVE go(_)
        go(i) == IF i > Len(x) THEN 0 ELSE x[i] + LimbBase * go(i + 1)
    IN go(1)

BLimb(x, i) == IF i <= Len(x) THEN x[i] ELSE 0

BCmp(a, b) ==
    LET RECURSIVE go(_)
        go(i) == IF i = 0 THEN 0
                 ELSE IF a[i] > b[i] THEN 1
                 ELSE IF a[i] < b[i] THEN -1
                 ELSE go(i - 1)
    IN IF Len(a) > Len(b) THEN 1
       ELSE IF Len(a) < Len(b) THEN -1
       ELSE go(Len(a))

BAdd(a, b) ==
    LET n == IF Len(a) > Len(b) THEN Len(a) ELSE Len(b)
        RECURSIVE go(_, _)
        go(i, c) == IF i > n THEN (IF c = 0 THEN <<>> ELSE <<c>>)
                    ELSE LET t == BLimb(a, i) + BLimb(b, i) + c
                         IN <<t % LimbBase>> \o go(i + 1, t \div LimbBase)
    IN go(1, 0)

\* a - b for a >= b
BSub(a, b) ==
    LET RECURSIVE go(_, _)
        go(i, br) == IF i > Len(a) THEN <<>>
                     ELSE LET t == a[i] - BLimb(b, i) - br
                          IN IF t < 0 THEN <<t + LimbBase>> \o go(i + 1, 1)
                             ELSE <<t>> \o go(i + 1, 0)
    IN BNorm(go(1, 0))

\* a * k for 0 <= k < LimbBase
BMulSmall(a, k) ==
    LET RECURSIVE go(_, _)
        go(i, c) == IF i > Len(a) THEN (IF c = 0 THEN <<>> ELSE <<c>>)
                    ELSE LET t == a[i] * k + c
                         IN <<t % LimbBase>> \o go(i + 1, t \div LimbBase)
    IN IF k = 0 THEN <<>> ELSE go(1, 0)

BShiftLimbs(a, q) == IF a = <<>> THEN <<>> ELSE [i \in 1..q |-> 0] \o a

BMul(a, b) ==
    LET RECURSIVE go(_)
        go(i) == IF i > Len(b) THEN <<>>
                 ELSE BAdd(BShiftLimbs(BMulSmall(a, b[i]), i - 1), go(i + 1))
    IN go(1)

\* <<a \div d, a % d>> for 0 < d < LimbBase
BDivSmall(a, d) ==
    LET RECURSIVE go(_, _, _)
        \* from the top limb down: r the running remainder, q the quotient
        \* limbs found so far
        go(i, r, q) == IF i = 0 THEN <<BNorm(q), r>>
                       ELSE go(i - 1, (r * LimbBase + a[i]) % d,
                               <<(r * LimbBase + a[i]) \div d>> \o q)
    IN go(Len(a), 0, <<>>)

BShl(a, k) == BShiftLimbs(BMulSmall(a, 2^(k % 15)), k \div 15)

BShr(a, k) ==
    LET q == k \div 15
        hi == IF q >= Len(a) THEN <<>> ELSE SubSeq(a, q + 1, Len(a))
    IN BDivSmall(hi, 2^(k % 15))[1]

RECURSIVE BitsOf(_)
BitsOf(v) == IF v = 0 THEN 0 ELSE 1 + BitsOf(v \div 2)

BBitLen(a) == IF a = <<>> THEN 0 ELSE 15 * (Len(a) - 1) + BitsOf(a[Len(a)])

BBit(a, i) == (BLimb(a, i \div 15 + 1) \div 2^(i % 15)) % 2

\* the number of trailing zero bits of a # 0
BTrailingZeros(a) ==
    LET RECURSIVE limb(_)
        limb(i) == IF a[i] # 0 THEN i ELSE limb(i + 1)
        RECURSIVE bits(_)
        bits(v) == IF v % 2 = 1 THEN 0 ELSE 1 + bits(v \div 2)
        j == limb(1)
    IN 15 * (j - 1) + bits(a[j])

----------------------------------------------------------------------------
(* binary64.  The operations that build on one another are arms of the one  *)
(* recursive definition Eval (further down); each has its name here.        *)

FZero == [s |-> 0, m |-> <<>>, e |-> 0]

FNeg(a) == [a EXCEPT !.s = -a.s]

RECURSIVE Eval(_, _)

\* <<an \div dn, (an % dn) \div 2^s>> for a divisor dn of two limbs or more
\* whose top limb has its top bit set
BLongDiv(an, dn, s) == Eval("BLongDiv", <<an, dn, s>>)

\* <<a \div d, a % d>> for d # 0
BDivMod(a, d) == Eval("BDivMod", <<a, d>>)

\* s * R * 2^E for R # 0, with R made odd
FPack(s, R, E) == Eval("FPack", <<s, R, E>>)

\* N \div 2^sh for sh > 0, rounded to nearest on the bits dropped (and on a
\* nonzero tail below them when sticky), ties to even
BRoundShr(N, sh, sticky) == Eval("BRoundShr", <<N, sh, sticky>>)

\* s * M * 2^E (plus a nonzero tail below M's last bit when sticky), rounded
\* to MantBits bits, ties to even
FRound(s, M, E, sticky) == Eval("FRound", <<s, M, E, sticky>>)

\* float(n)
FromInt(n) == Eval("FromInt", <<n>>)

FAdd(a, b) == Eval("FAdd", <<a, b>>)

FSub(a, b) == Eval("FAdd", <<a, FNeg(b)>>)

FMul(a, b) == Eval("FMul", <<a, b>>)

\* a / b for b # 0
FDiv(a, b) == Eval("FDiv", <<a, b>>)

\* -1, 0, 1 as a < b, a = b, a > b
FCmp(a, b) == Eval("FCmp", <<a, b>>)

FLess(a, b) == FCmp(a, b) < 0

FLeq(a, b) == FCmp(a, b) <= 0

\* the decimal a / 10^k, as Python reads a literal
Dec(a, k) == Eval("Dec", <<a, k>>)

\* |x| * 10^nd rounded to an integer, ties to even
FScaled(x, nd) == Eval("FScaled", <<x, nd>>)

\* round(x, nd) of a float
PyRound(x, nd) == Eval("PyRound", <<x, nd>>)

----------------------------------------------------------------------------
(* The meeting record and the outcome of a call *)

\* a segment without a 'speaker' key
NoSpeaker == "<none>"

Ret(v) == [kind |-> "return", value |-> v]

Raise(x) == [kind |-> "raise", exc |-> x]

NoResult == [kind |-> "none"]

\* data.get('speaker_analysis', {}).get('segments', [])
segments_of(data) == data.segments

\* segment.get('speaker', 'Unknown')
speaker_of(segment) == IF segment.speaker = NoSpeaker THEN "Unknown" ELSE segment.speaker

\* sum(xs): starts from 0 and adds from the left.  (Here and below a loop
\* is a recursion that carries the loop's variables.)
PySum(xs) ==
    LET RECURSIVE go(_, _)
        go(i, acc) == IF i > Len(xs) \/ acc.s \notin {-1, 0, 1} THEN acc
                      ELSE go(i + 1, FAdd(acc, xs[i]))
    IN go(1, FZero)

\* sorted(xs): ascending and stable
PySorted(xs) ==
    LET RECURSIVE place(_, _, _)
        \* x goes after the last element that is <= x, searching from the back
        place(ys, x, i) == IF i = 0 \/ FLeq(ys[i], x) THEN i ELSE place(ys, x, i - 1)
        put(ys, x, at) == SubSeq(ys, 1, at) \o <<x>> \o SubSeq(ys, at + 1, Len(ys))
        RECURSIVE go(_, _)
        \* ys: the first i - 1 elements, sorted
        go(i, ys) == IF i > Len(xs) \/ Len(ys) # i - 1 THEN ys
                     ELSE go(i + 1, put(ys, xs[i], place(ys, xs[i], Len(ys))))
    IN go(1, <<>>)

----------------------------------------------------------------------------
(* Python strings: a text is a TLA+ string; its characters are the         *)
(* one-character strings.  The alphabet is ASCII.                           *)

CharAt(s, i) == SubSeq(s, i, i)

\* what str.split() and str.strip() take for white space
Whitespace == {" ", "\t", "\n", "\r", "\f"}

\* the class [.!?]
Terminators == {".", "!", "?"}

LowerLetters == "abcdefghijklmnopqrstuvwxyz"

UpperLetters == "ABCDEFGHIJKLMNOPQRSTUVWXYZ"

IsLower(c) == \E k \in 1..Len(LowerLetters) : CharAt(LowerLetters, k) = c

UpperChars == {CharAt(UpperLetters, k) : k \in 1..Len(UpperLetters)}

IsUpper(c) == c \in UpperChars

\* the class \w once the text is lower case
WordChars ==
    {CharAt(LowerLetters, k) : k \in 1..Len(LowerLetters)}
        \cup {"0", "1", "2", "3", "4", "5", "6", "7", "8", "9", "_"}

LowerChar(c) ==
    IF IsUpper(c)
    THEN CharAt(LowerLetters, CHOOSE k \in 1..Len(UpperLetters) : CharAt(UpperLetters, k) = c)
    ELSE c

\* s.lower(): character by character, the text taken in two halves
RECURSIVE PyLower(_)
PyLower(s) ==
    IF s = "" THEN ""
    ELSE IF Len(s) = 1 THEN LowerChar(s)
    ELSE PyLower(SubSeq(s, 1, Len(s) \div 2)) \o PyLower(SubSeq(s, Len(s) \div 2 + 1, Len(s)))

\* the maximal runs of characters inside the class (or, for within = FALSE,
\* outside it), in order, each as <<first, last>>
RunsOf(s, class, within) ==
    LET inside(i) == i >= 1 /\ i <= Len(s) /\ ((CharAt(s, i) \in class) = within)
        last(i) == CHOOSE j \in i..Len(s) : (\A k \in i..j : inside(k)) /\ ~inside(j + 1)
        runs(starts) == [k \in 1..Len(starts) |-> <<starts[k], last(starts[k])>>]
    IN runs(SelectSeq([i \in 1..Len(s) |-> i], LAMBDA i : inside(i) /\ ~inside(i - 1)))

\* s.split()
PySplit(s) ==
    LET words(runs) == [k \in 1..Len(runs) |-> SubSeq(s, runs[k][1], runs[k][2])]
    IN words(RunsOf(s, Whitespace, FALSE))

\* s.strip()
PyStrip(s) ==
    LET inner(runs) == IF runs = <<>> THEN ""
                       ELSE SubSeq(s, runs[1][1], runs[Len(runs)][2])
    IN inner(RunsOf(s, Whitespace, FALSE))

\* s[:n]
PyPrefix(s, n) == IF Len(s) <= n THEN s ELSE SubSeq(s, 1, n)

\* xs[:n] of a list
PyHead(xs, n) == IF Len(xs) <= n THEN xs ELSE SubSeq(xs, 1, n)

\* sep.join(xs)
RECURSIVE PyJoin(_, _)
PyJoin(sep, xs) == IF xs = <<>> THEN ""
                   ELSE IF Len(xs) = 1 THEN xs[1]
                   ELSE xs[1] \o sep \o PyJoin(sep, Tail(xs))

\* needle in s
PyContains(s, needle) ==
    \E i \in 1..(Len(s) - Len(needle) + 1) : SubSeq(s, i, i + Len(needle) - 1) = needle

\* re.split(r'[.!?]+', s): what lies before, between and after the maximal
\* runs of terminators, the empty pieces included
re_split_sentences(s) ==
    LET pieces(stops) ==
            [k \in 1..(Len(stops) + 1) |->
                SubSeq(s,
                       IF k = 1 THEN 1 ELSE stops[k - 1][2] + 1,
                       IF k > Len(stops) THEN Len(s) ELSE stops[k][1] - 1)]
    IN pieces(RunsOf(s, Terminators, TRUE))

\* [s.strip() for s in re.split(r'[.!?]+', text) if len(s.strip()) > longer]
stripped_sentences(text, longer) ==
    LET strip(pieces) == [k \in 1..Len(pieces) |-> PyStrip(pieces[k])]
        keep(stripped) == SelectSeq(stripped, LAMBDA t : Len(t) > longer)
    IN keep(strip(re_split_sentences(text)))

----------------------------------------------------------------------------
(* FreeAnalyticsEngine._calculate_meeting_metrics and _extract_topics *)

\* the words Counter.most_common leaves out of the topics
common_words == {"this", "that", "with", "have", "from", "they", "what", "about", "would"}

\* how many topics most_common keeps
TopicLimit == 10

\* Counter(words).most_common(limit): the distinct words by falling count,
\* words of one count in the order they first occur
most_common(words, limit) ==
    LET count(w) == Cardinality({i \in 1..Len(words) : words[i] = w})
        ranked(distinct) ==
            LET before(j, k) == \/ count(distinct[j]) > count(distinct[k])
                                \/ count(distinct[j]) = count(distinct[k]) /\ j < k
                rank(k) == 1 + Cardinality({j \in 1..Len(distinct) : before(j, k)})
            IN [r \in 1..Len(distinct) |->
                   distinct[CHOOSE k \in 1..Len(distinct) : rank(k) = r]]
        firsts == SelectSeq([i \in 1..Len(words) |-> i],
                            LAMBDA i : \A j \in 1..(i - 1) : words[j] # words[i])
    IN PyHead(ranked([k \in 1..Len(firsts) |-> words[firsts[k]]]), limit)

\* re.findall(r'\b[a-z]{4,}\b', text.lower()) without the common words, by
\* frequency: a match is a whole run of word characters, all of them letters
_extract_topics(text) ==
    LET found(low) ==
            LET letters(run) == \A i \in run[1]..run[2] : IsLower(CharAt(low, i))
                runs(all) == SelectSeq(all, LAMBDA run : run[2] - run[1] + 1 >= 4 /\ letters(run))
                words(matches) == [k \in 1..Len(matches) |->
                                      SubSeq(low, matches[k][1], matches[k][2])]
            IN words(runs(RunsOf(low, WordChars, TRUE)))
    IN most_common(SelectSeq(found(PyLower(text)), LAMBDA w : w \notin common_words),
                   TopicLimit)

\* data.get('transcript', {}).get('text', '')
transcript_of(data) == data.text

\* data.get('processing_metadata', {}).get('audio_duration', 0)
duration_of(data) == data.audio_duration

\* the speaker count where 'speaker_count' is missing
DefaultSpeakerCount == 1

\* the same lookup with 0 for a missing 'speaker_count'
speaker_count_or_zero(data) ==
    IF data.speaker_count = <<>> THEN 0 ELSE data.speaker_count[1]

\* data.get('speaker_analysis', {}).get('speaker_count', 1)
speaker_count_of(data) ==
    IF data.speaker_count = <<>> THEN DefaultSpeakerCount ELSE data.speaker_count[1]

\* max(a, b) of two floats
PyMax(a, b) == IF FLess(a, b) THEN b ELSE a

\* min(a, b) of two floats
PyMin(a, b) == IF FLess(b, a) THEN b ELSE a

_calculate_meeting_metrics(data) ==
    LET metrics(transcript, minutes) ==
            [duration_minutes |-> PyRound(minutes, 2),
             word_count |-> Len(PySplit(transcript)),
             sentence_count |-> Len(stripped_sentences(transcript, 0)),
             words_per_minute |-> FDiv(FromInt(Len(PySplit(transcript))),
                                       PyMax(minutes, FromInt(1))),
             speaker_count |-> speaker_count_of(data),
             unique_topics |-> Len(_extract_topics(transcript))]
    IN Ret(metrics(transcript_of(data), FDiv(duration_of(data), FromInt(60))))

----------------------------------------------------------------------------
(* FreeAnalyticsEngine._analyze_participants and its balance score *)

\* the dict speaker_times, in insertion order: a sequence of
\* [speaker, time]: a key enters the dict at its first segment, and its value
\* is 0 plus the durations of its segments, added in segment order
aggregate_speaker_times(segments) ==
    LET durations(speaker) ==
            LET own(mine) == [k \in 1..Len(mine) |-> mine[k].duration]
            IN own(SelectSeq(segments, LAMBDA g : speaker_of(g) = speaker))
        entry(speaker) == [speaker |-> speaker, time |-> PySum(durations(speaker))]
        entries(first) == [k \in 1..Len(first) |-> entry(speaker_of(segments[first[k]]))]
    IN entries(SelectSeq([i \in 1..Len(segments) |-> i],
                         LAMBDA i : \A j \in 1..(i - 1) :
                                      speaker_of(segments[j]) # speaker_of(segments[i])))

dict_values(speaker_times) == [i \in 1..Len(speaker_times) |-> speaker_times[i].time]

\* the weighted sum divided by the total alone, without the factor n
gini_unscaled(sorted_times) ==
    LET n == Len(sorted_times)
        weighted == [i \in 1..n |-> FMul(FromInt(2 * i - n - 1), sorted_times[i])]
    IN FDiv(PySum(weighted), PySum(sorted_times))

\* sum((2 * i - n - 1) * time ...) / (n * sum(sorted_times))
gini_of(sorted_times) ==
    LET n == Len(sorted_times)
        weighted == [i \in 1..n |-> FMul(FromInt(2 * i - n - 1), sorted_times[i])]
    IN FDiv(PySum(weighted), FMul(FromInt(n), PySum(sorted_times)))

\* a balance of 0.0 where there is nothing to balance
ZeroBalance == FZero

\* return 0.5, for no speakers and for a total of 0
NeutralBalance == Dec(5, 1)

_calculate_participation_balance(speaker_times) ==
    LET times == dict_values(speaker_times)
    IN IF Len(speaker_times) = 0 THEN NeutralBalance
       ELSE IF PySum(times).s = 0 THEN NeutralBalance
       ELSE FSub(FromInt(1), gini_of(PySorted(times)))

\* the percentage rounded to one decimal only
percentage_to_one_decimal(time, total_time) ==
    IF total_time.s > 0
    THEN PyRound(FMul(FDiv(time, total_time), FromInt(100)), 1)
    ELSE FZero

\* round((time / total_time) * 100, 2) if total_time > 0 else 0
percentage_of(time, total_time) ==
    IF total_time.s > 0
    THEN PyRound(FMul(FDiv(time, total_time), FromInt(100)), 2)
    ELSE FZero

\* the last of the speakers with the longest time
dominant_speaker_last(speaker_times) ==
    LET best == CHOOSE b \in 1..Len(speaker_times) :
                  /\ \A j \in 1..Len(speaker_times) :
                        FLeq(speaker_times[j].time, speaker_times[b].time)
                  /\ \A j \in (b + 1)..Len(speaker_times) :
                        FLess(speaker_times[j].time, speaker_times[b].time)
    IN IF Len(speaker_times) = 0 THEN "Unknown"
       ELSE speaker_times[best].speaker

\* max(speaker_times.items(), key=lambda x: x[1])[0] if speaker_times else "Unknown"
dominant_speaker_of(speaker_times) ==
    LET \* max() keeps the first of the maximal items
        best == CHOOSE b \in 1..Len(speaker_times) :
                  /\ \A j \in 1..Len(speaker_times) :
                        FLeq(speaker_times[j].time, speaker_times[b].time)
                  /\ \A j \in 1..(b - 1) :
                        FLess(speaker_times[j].time, speaker_times[b].time)
    IN IF Len(speaker_times) = 0 THEN "Unknown"
       ELSE speaker_times[best].speaker

\* the marker with a balance beside it
InsufficientSpeakerDataBalanced ==
    [analysis |-> "Insufficient speaker data", participation_balance |-> Dec(5, 1)]

\* {"analysis": "Insufficient speaker data"}
InsufficientSpeakerData == [analysis |-> "Insufficient speaker data"]

_analyze_participants(data) ==
    LET report(speaker_times, total_time) ==
            [speaking_time_distribution |->
                [i \in 1..Len(speaker_times) |->
                    [speaker |-> speaker_times[i].speaker,
                     time_seconds |-> speaker_times[i].time,
                     percentage |-> percentage_of(speaker_times[i].time, total_time)]],
             dominant_speaker |-> dominant_speaker_of(speaker_times),
             participation_balance |-> _calculate_participation_balance(speaker_times)]
        tally(speaker_times) == report(speaker_times, PySum(dict_values(speaker_times)))
    IN IF Len(segments_of(data)) = 0 THEN Ret(InsufficientSpeakerData)
       ELSE Ret(tally(aggregate_speaker_times(segments_of(data))))

----------------------------------------------------------------------------
(* FreeAnalyticsEngine._analyze_content and what it calls *)

\* how many sentences _cluster_topics reads, and how many clusters it returns
ClusterSentenceLimit == 20

ClusterLimit == 5

\* the clusters in the order they were begun
in_merge_order(xs) == xs

\* sorted(xs, key=lambda x: x["frequency"], reverse=True): by falling
\* frequency, equal frequencies in their old order
sorted_by_frequency(xs) ==
    LET before(j, k) == \/ xs[j].frequency > xs[k].frequency
                        \/ xs[j].frequency = xs[k].frequency /\ j < k
        rank(k) == 1 + Cardinality({j \in 1..Len(xs) : before(j, k)})
    IN [r \in 1..Len(xs) |-> xs[CHOOSE k \in 1..Len(xs) : rank(k) = r]]

_cluster_topics(text) ==
    LET \* the topic a sentence gives, if it has four words or more
        candidate(sentence) ==
            LET of(words) ==
                    IF Len(words) >= 4
                    THEN <<[topic |-> PyJoin(" ", PyHead(SelectSeq(words, LAMBDA w : Len(w) > 3), 3)),
                            representative_sentence |-> PyPrefix(sentence, 100) \o "...",
                            frequency |-> 1]>>
                    ELSE <<>>
            IN of(PySplit(PyLower(sentence)))
        RECURSIVE topics_of(_, _)
        topics_of(sentences, i) ==
            IF i > Len(sentences) THEN <<>>
            ELSE candidate(sentences[i]) \o topics_of(sentences, i + 1)
        similar(a, b) == \E i \in 1..Len(PySplit(a.topic)) :
                            \E j \in 1..Len(PySplit(b.topic)) :
                                PySplit(a.topic)[i] = PySplit(b.topic)[j]
        \* the first similar topic of merged gains one; without one the topic joins
        add(merged, topic, hits) ==
            IF hits = {} THEN Append(merged, topic)
            ELSE [merged EXCEPT ![CHOOSE j \in hits : \A k \in hits : j <= k].frequency = @ + 1]
        RECURSIVE merge(_, _, _)
        \* merged: what the first i - 1 topics gave, so i - 1 clusters at most
        merge(topics, i, merged) ==
            IF i > Len(topics) \/ Len(merged) >= i THEN merged
            ELSE merge(topics, i + 1,
                       add(merged, topics[i],
                           {j \in 1..Len(merged) : similar(topics[i], merged[j])}))
        clusters(topics) == PyHead(sorted_by_frequency(merge(topics, 1, <<>>)), ClusterLimit)
    IN clusters(topics_of(PyHead(stripped_sentences(text, 10), ClusterSentenceLimit), 1))

positive_words == {"good", "great", "excellent", "positive", "success", "happy"}

negative_words == {"bad", "poor", "negative", "problem", "issue", "concern"}

\* the trend by the number of places at which the words stand in the text
sentiment_by_occurrences(text) ==
    LET trend(positive_count, negative_count) ==
            IF positive_count > negative_count THEN "positive"
            ELSE IF negative_count > positive_count THEN "negative"
            ELSE "neutral"
        count(low, words) ==
            Cardinality({p \in words \X (1..Len(low)) :
                            /\ p[2] + Len(p[1]) - 1 <= Len(low)
                            /\ SubSeq(low, p[2], p[2] + Len(p[1]) - 1) = p[1]})
        of(low) == trend(count(low, positive_words), count(low, negative_words))
    IN of(PyLower(text))

_analyze_sentiment_trend(text) ==
    LET trend(positive_count, negative_count) ==
            IF positive_count > negative_count THEN "positive"
            ELSE IF negative_count > positive_count THEN "negative"
            ELSE "neutral"
        count(low, words) == Cardinality({w \in words : PyContains(low, w)})
        of(low) == trend(count(low, positive_words), count(low, negative_words))
    IN of(PyLower(text))

\* the longest sentence that is shown whole, and how many keywords a sample keeps
PreviewLimit == 50

KeywordLimit == 3

\* xs[i] is defined for -len(xs) <= i < len(xs); otherwise Python raises IndexError
PyIndexOk(xs, i) == i >= -Len(xs) /\ i < Len(xs)

\* xs[i], where it is defined
PyItem(xs, i) == IF i >= 0 THEN xs[i + 1] ELSE xs[Len(xs) + i + 1]

\* the sampled indices of n sentences, as the claim's reader might round them
sample_points_rounded_up(n) == <<0, (n + 2) \div 3, (2 * n + 2) \div 3, n - 1>>

sample_points(n) == <<0, n \div 3, (2 * n) \div 3, n - 1>>

_track_keyword_evolution(text) ==
    LET sample(point, sentence) ==
            [position |-> point,
             keywords |-> PyHead(SelectSeq(PySplit(sentence), LAMBDA w : Len(w) > 4),
                                 KeywordLimit),
             sentence_preview |-> IF Len(sentence) > PreviewLimit
                                  THEN PyPrefix(sentence, PreviewLimit) \o "..."
                                  ELSE sentence]
        evolution(sentences, points) ==
            IF \E k \in 1..Len(points) : ~PyIndexOk(sentences, points[k])
            THEN Raise("IndexError")
            ELSE Ret([k \in 1..Len(points) |-> sample(points[k], PyItem(sentences, points[k]))])
        of(sentences) ==
            evolution(sentences,
                      SelectSeq(sample_points(Len(sentences)),
                                LAMBDA point : point < Len(sentences)))
    IN of(stripped_sentences(text, 0))

\* the decision patterns in another order of declaration
decision_patterns_modals_first ==
    <<"will ", "should ", "going to ", "decided to ", "agreed that ">>

\* what each decision pattern reads before its group ([^.!?]+)
decision_patterns == <<"decided to ", "agreed that ", "will ", "should ", "going to ">>

DecisionLimit == 5

\* re.findall(literal + r'([^.!?]+)', text, re.IGNORECASE): from the left,
\* each match takes the literal in any case and then every character up to
\* the next terminator (one at least); the search goes on behind the match
re_findall_group(literal, text) ==
    LET of(low) ==
            LET hit(p) == /\ p + Len(literal) <= Len(text)
                          /\ SubSeq(low, p, p + Len(literal) - 1) = literal
                          /\ CharAt(text, p + Len(literal)) \notin Terminators
                stop(p) == CHOOSE j \in p..Len(text) :
                              /\ \A k \in p..j : CharAt(text, k) \notin Terminators
                              /\ j = Len(text) \/ CharAt(text, j + 1) \in Terminators
                RECURSIVE scan(_)
                take(p) == LET to(j) == <<SubSeq(text, p + Len(literal), j)>> \o scan(j + 1)
                           IN to(stop(p + Len(literal)))
                first(hits) == IF hits = {} THEN <<>>
                               ELSE take(CHOOSE p \in hits : \A q \in hits : p <= q)
                scan(from) == first({p \in from..Len(text) : hit(p)})
            IN scan(1)
    IN of(PyLower(text))

_identify_decisions(text) ==
    LET RECURSIVE decisions(_)
        decisions(k) == IF k > Len(decision_patterns) THEN <<>>
                        ELSE re_findall_group(decision_patterns[k], text) \o decisions(k + 1)
    IN PyHead(decisions(1), DecisionLimit)

_analyze_content(data) ==
    LET content(transcript, keyword_evolution) ==
            IF keyword_evolution.kind = "raise" THEN keyword_evolution
            ELSE Ret([topic_clusters |-> _cluster_topics(transcript),
                      sentiment_trend |-> _analyze_sentiment_trend(transcript),
                      keyword_evolution |-> keyword_evolution.value,
                      question_count |-> Cardinality({i \in 1..Len(transcript) :
                                                        CharAt(transcript, i) = "?"}),
                      decision_points |-> _identify_decisions(transcript)])
    IN content(transcript_of(data), _track_keyword_evolution(transcript_of(data)))

----------------------------------------------------------------------------
(* FreeAnalyticsEngine._analyze_temporal_patterns *)

\* the number of boundaries np.linspace is asked for
BinBoundaries == 10

\* the boundaries without the last one: i * step for i < num - 1
linspace_open(stop, num) ==
    LET points(step) == [k \in 1..(num - 1) |-> FMul(FromInt(k - 1), step)]
    IN points(FDiv(stop, FromInt(num - 1)))

\* np.linspace(0, stop, num) for num > 1: the step is stop / (num - 1) and
\* boundary i is i * step (for a zero step, (i / (num - 1)) * stop); the last
\* boundary is set to stop itself
linspace(stop, num) ==
    LET points(step) ==
            [k \in 1..num |->
                IF k = num THEN stop
                ELSE IF step.s = 0 THEN FMul(FDiv(FromInt(k - 1), FromInt(num - 1)), stop)
                ELSE FMul(FromInt(k - 1), step)]
    IN points(FDiv(stop, FromInt(num - 1)))

\* max(xs) of a non-empty list of floats
PyMaxOf(xs) == xs[CHOOSE b \in 1..Len(xs) :
                     /\ \A j \in 1..Len(xs) : FLeq(xs[j], xs[b])
                     /\ \A j \in 1..(b - 1) : FLess(xs[j], xs[b])]

\* the last index, from 0, of a greatest element
argmax_last(xs) == (CHOOSE b \in 1..Len(xs) :
                       /\ \A j \in 1..Len(xs) : FLeq(xs[j], xs[b])
                       /\ \A j \in (b + 1)..Len(xs) : FLess(xs[j], xs[b])) - 1

\* np.argmax(xs), from 0: the first index of a greatest element
argmax(xs) == (CHOOSE b \in 1..Len(xs) :
                  /\ \A j \in 1..Len(xs) : FLeq(xs[j], xs[b])
                  /\ \A j \in 1..(b - 1) : FLess(xs[j], xs[b])) - 1

\* {"analysis": "No temporal data available"}
NoTemporalData == [analysis |-> "No temporal data available"]

\* a segment counted where it ends
ends_in_bin(segment, bin_start, bin_end) ==
    /\ FLeq(bin_start, segment.end_time)
    /\ FLess(segment.end_time, bin_end)

\* a bin that holds both of its boundaries
starts_in_closed_bin(segment, bin_start, bin_end) ==
    /\ FLeq(bin_start, segment.start_time)
    /\ FLeq(segment.start_time, bin_end)

\* bin_start <= s.get('start_time', 0) < bin_end
starts_in_bin(segment, bin_start, bin_end) ==
    /\ FLeq(bin_start, segment.start_time)
    /\ FLess(segment.start_time, bin_end)

_analyze_temporal_patterns(data) ==
    LET segments == segments_of(data)
        bin_activity(bin_start, bin_end) ==
            LET durations(inside) == [k \in 1..Len(inside) |-> inside[k].duration]
            IN PySum(durations(SelectSeq(segments,
                                         LAMBDA g : starts_in_bin(g, bin_start, bin_end))))
        patterns(time_bins, activity_by_time) ==
            [activity_over_time |-> activity_by_time,
             peak_activity_time |-> IF activity_by_time = <<>> THEN FZero
                                    ELSE time_bins[argmax(activity_by_time) + 1],
             engagement_trend |-> "stable"]
        binned(time_bins) ==
            patterns(time_bins,
                     [i \in 1..(Len(time_bins) - 1) |->
                         bin_activity(time_bins[i], time_bins[i + 1])])
    IN IF Len(segments) = 0 THEN Ret(NoTemporalData)
       ELSE Ret(binned(linspace(PyMaxOf([k \in 1..Len(segments) |-> segments[k].end_time]),
                                BinBoundaries)))

----------------------------------------------------------------------------
(* FreeAnalyticsEngine._calculate_engagement, _generate_visualizations and  *)
(* generate_comprehensive_analytics                                         *)

\* len(x): Python raises TypeError for an int
PyLen(x) == IF x \in Int THEN Raise("TypeError") ELSE Ret(Len(x))

\* the brackets with each boundary value in the bracket below it
recommendations_closed_above(score_) ==
    IF FLeq(score_, Dec(3, 1))
    THEN <<"Consider shorter, more focused meetings",
           "Encourage more participant interaction",
           "Prepare agenda to stay on topic">>
    ELSE IF FLeq(score_, Dec(7, 1))
    THEN <<"Good meeting structure, could improve participation balance",
           "Consider time management for more efficient discussions">>
    ELSE <<"Excellent meeting engagement",
           "Maintain current participation levels">>

_generate_engagement_recommendations(score_) ==
    IF FLess(score_, Dec(3, 1))
    THEN <<"Consider shorter, more focused meetings",
           "Encourage more participant interaction",
           "Prepare agenda to stay on topic">>
    ELSE IF FLess(score_, Dec(7, 1))
    THEN <<"Good meeting structure, could improve participation balance",
           "Consider time management for more efficient discussions">>
    ELSE <<"Excellent meeting engagement",
           "Maintain current participation levels">>

\* participants.get('participation_balance', 0.5)
balance_or_default(participants) ==
    IF "participation_balance" \in DOMAIN participants
    THEN participants.participation_balance
    ELSE Dec(5, 1)

_calculate_engagement(data) ==
    LET percent(x) == PyRound(FMul(x, FromInt(100)), 1)
        report(word_count_score, speaker_balance, topic_diversity, engagement_score) ==
            [overall_score |-> percent(engagement_score),
             components |-> [content_richness |-> percent(word_count_score),
                             participation_balance |-> percent(speaker_balance),
                             topic_diversity |-> percent(topic_diversity)],
             recommendations |-> _generate_engagement_recommendations(engagement_score)]
        mean(word_count_score, speaker_balance, topic_diversity) ==
            report(word_count_score, speaker_balance, topic_diversity,
                   FDiv(FAdd(FAdd(word_count_score, speaker_balance), topic_diversity),
                        FromInt(3)))
        scored_with(metrics, participants, topic_count) ==
            IF topic_count.kind = "raise" THEN topic_count
            ELSE Ret(mean(PyMin(FDiv(FromInt(metrics.word_count), FromInt(500)), FromInt(1)),
                          balance_or_default(participants),
                          PyMin(FDiv(FromInt(topic_count.value), FromInt(10)), FromInt(1))))
        scored(metrics, participants) ==
            scored_with(metrics, participants, PyLen(metrics.unique_topics))
    IN scored(_calculate_meeting_metrics(data).value, _analyze_participants(data).value)

_generate_visualizations(data) ==
    LET distribution(participants) ==
            IF "speaking_time_distribution" \in DOMAIN participants
            THEN participants.speaking_time_distribution
            ELSE <<>>
        activity(temporal) ==
            IF "activity_over_time" \in DOMAIN temporal THEN temporal.activity_over_time
            ELSE <<>>
        charts(shares, levels) ==
            [speaker_pie_chart |->
                [labels |-> [k \in 1..Len(shares) |-> shares[k].speaker],
                 values |-> [k \in 1..Len(shares) |-> shares[k].percentage]],
             activity_timeline |->
                [time_points |-> [k \in 1..Len(levels) |-> k - 1],
                 activity_levels |-> levels],
             engagement_radar |->
                [metrics |-> <<"Content", "Participation", "Topics">>,
                 scores |-> <<70, 65, 80>>]]
    IN Ret(charts(distribution(_analyze_participants(data).value),
                  activity(_analyze_temporal_patterns(data).value)))

\* the six sections in the order the dict display evaluates them; the first
\* exception ends the call, and no later section is computed
generate_comprehensive_analytics(data) ==
    LET sixth(m, p, c, t, e, v) ==
            IF v.kind = "raise" THEN v
            ELSE Ret([meeting_metrics |-> m.value,
                      participant_insights |-> p.value,
                      content_analysis |-> c.value,
                      temporal_patterns |-> t.value,
                      engagement_score |-> e.value,
                      visualizations |-> v.value])
        fifth(m, p, c, t, e) ==
            IF e.kind = "raise" THEN e ELSE sixth(m, p, c, t, e, _generate_visualizations(data))
        fourth(m, p, c, t) ==
            IF t.kind = "raise" THEN t ELSE fifth(m, p, c, t, _calculate_engagement(data))
        third(m, p, c) ==
            IF c.kind = "raise" THEN c ELSE fourth(m, p, c, _analyze_temporal_patterns(data))
        second(m, p) ==
            IF p.kind = "raise" THEN p ELSE third(m, p, _analyze_content(data))
        first(m) ==
            IF m.kind = "raise" THEN m ELSE second(m, _analyze_participants(data))
    IN first(_calculate_meeting_metrics(data))

----------------------------------------------------------------------------
(* FreeCalendarService (CalenderIntegration.py).  A regular expression is a *)
(* sequence of pieces; a match is looked for as the re module does: pieces  *)
(* from the left, a repetition taking as many characters as it can and      *)
(* giving them back one by one, alternatives in their order.  Under         *)
(* re.IGNORECASE the text is compared in lower case.                        *)

\* the class \d
Digits == {"0", "1", "2", "3", "4", "5", "6", "7", "8", "9"}

\* a character inside the class (or, for within = FALSE, outside it), from
\* min to max times; max = -1 is no limit
Rep(class, within, min, max) ==
    [kind |-> "rep", class |-> class, within |-> within, min |-> min, max |-> max]

\* one of the literals, in lower case
Lit(alts) == [kind |-> "lit", alts |-> alts, optional |-> FALSE]

\* one of the literals or nothing: (?:a|b)?
Opt(alts) == [kind |-> "lit", alts |-> alts, optional |-> TRUE]

\* the pieces k.. of the pattern matched at position pos of the lower-case
\* text: <<>> where they do not match, otherwise the positions at which
\* piece k, k + 1, ... begin, followed by the position behind the match
RECURSIVE re_match(_, _, _, _)
re_match(pattern, k, low, pos) ==
    IF k > Len(pattern) THEN <<pos>>
    ELSE LET piece == pattern[k]
             ok(i) == i <= Len(low) /\ ((CharAt(low, i) \in piece.class) = piece.within)
             most == IF piece.max < 0 \/ piece.max > Len(low) - pos + 1
                     THEN Len(low) - pos + 1 ELSE piece.max
             run == CHOOSE n \in 0..most :
                       /\ n = most \/ ~ok(pos + n)
                       /\ \A i \in pos..(pos + n - 1) : ok(i)
             \* the longest repetition after which the rest matches
             longest(fits) ==
                 IF fits = {} THEN <<>>
                 ELSE <<pos>> \o re_match(pattern, k + 1, low,
                                          pos + (CHOOSE n \in fits : \A o \in fits : o <= n))
             here(alt) == /\ pos + Len(alt) - 1 <= Len(low)
                          /\ SubSeq(low, pos, pos + Len(alt) - 1) = alt
             \* the first alternative after which the rest matches
             first(fits) ==
                 IF fits # {}
                 THEN <<pos>> \o re_match(pattern, k + 1, low,
                                          pos + Len(piece.alts[CHOOSE a \in fits : \A o \in fits : a <= o]))
                 ELSE IF piece.optional
                 THEN LET none(r) == IF r # <<>> THEN <<pos>> \o r ELSE <<>>
                      IN none(re_match(pattern, k + 1, low, pos))
                 ELSE <<>>
         IN IF piece.kind = "rep"
            THEN longest({n \in piece.min..run :
                             re_match(pattern, k + 1, low, pos + n) # <<>>})
            ELSE first({a \in 1..Len(piece.alts) :
                           /\ here(piece.alts[a])
                           /\ re_match(pattern, k + 1, low, pos + Len(piece.alts[a])) # <<>>})

\* the group, pieces first..last, of every match of the pattern in the text,
\* whose lower case is low: from the left, the search going on behind each
\* match
re_findall_low(pattern, first, last, text, low) ==
    LET at(starts) ==
            LET RECURSIVE scan(_)
                scan(p) ==
                    LET found(m) == <<SubSeq(text, m[first], m[last + 1] - 1)>>
                                        \o scan(m[Len(m)])
                        from(later) ==
                            IF later = {} THEN <<>>
                            ELSE found(re_match(pattern, 1, low,
                                                CHOOSE q \in later : \A o \in later : q <= o))
                    IN from({q \in starts : q >= p})
            IN scan(1)
    IN at({q \in 1..Len(text) : re_match(pattern, 1, low, q) # <<>>})

\* the matches of several patterns, pattern after pattern
RECURSIVE re_findall_each_low(_, _, _)
re_findall_each_low(patterns, text, low) ==
    IF patterns = <<>> THEN <<>>
    ELSE re_findall_low(Head(patterns).pieces, Head(patterns).first, Head(patterns).last,
                        text, low)
             \o re_findall_each_low(Tail(patterns), text, low)

\* re.findall(pattern, text, re.IGNORECASE) for each of the patterns
re_findall_each(patterns, text) ==
    LET of(low) == re_findall_each_low(patterns, text, low)
    IN of(PyLower(text))

\* [^.!?]+
Phrase == Rep(Terminators, FALSE, 1, -1)

\* \w+
Word == Rep(WordChars, TRUE, 1, -1)

\* \d{1,2}
Number == Rep(Digits, TRUE, 1, 2)

date_patterns ==
    <<[pieces |-> <<Number, Rep({"/", "-"}, TRUE, 1, 1), Number,
                    Rep({"/", "-"}, TRUE, 1, 1), Rep(Digits, TRUE, 2, 4)>>,
       first |-> 1, last |-> 5],
      [pieces |-> <<Number, Lit(<<"st", "nd", "rd", "th">>), Lit(<<" of ">>), Word>>,
       first |-> 1, last |-> 4],
      [pieces |-> <<Lit(<<"next ">>), Word>>, first |-> 1, last |-> 2],
      [pieces |-> <<Word, Lit(<<" ">>), Number>>, first |-> 1, last |-> 3]>>

time_patterns ==
    <<[pieces |-> <<Number, Lit(<<":">>), Rep(Digits, TRUE, 2, 2),
                    Rep(Whitespace, TRUE, 0, -1), Opt(<<"am", "pm">>)>>,
       first |-> 1, last |-> 5],
      [pieces |-> <<Number, Rep(Whitespace, TRUE, 0, -1), Lit(<<"am", "pm">>)>>,
       first |-> 1, last |-> 3],
      [pieces |-> <<Lit(<<"at ">>), Number>>, first |-> 1, last |-> 2]>>

action_phrases ==
    <<[pieces |-> <<Lit(<<"follow up on ">>), Phrase>>, first |-> 2, last |-> 2],
      [pieces |-> <<Lit(<<"discuss ">>), Phrase, Lit(<<" next">>)>>, first |-> 2, last |-> 2],
      [pieces |-> <<Lit(<<"review ">>), Phrase>>, first |-> 2, last |-> 2],
      [pieces |-> <<Lit(<<"meet about ">>), Phrase>>, first |-> 2, last |-> 2]>>

\* meeting_data.get('llm_summary', {}).get('summary', '')
summary_of(data) == data.summary

\* how many days after now a parsed date lies
ParsedDateDays == 7

\* a datetime, as the number of days after the day of the call; today is the
\* weekday now (0 = Monday)
DateAfter(now, days) == [days |-> days, weekday |-> (now + days) % 7]

\* one date, now + 7 days, for every match
_extract_dates(text, now) ==
    LET parsed(matches) == [k \in 1..Len(matches) |-> DateAfter(now, ParsedDateDays)]
    IN parsed(re_findall_each(date_patterns, text))

_extract_times(text) == re_findall_each(time_patterns, text)

default_topics == <<"Action Items", "Project Update", "Team Discussion">>

\* how many topics _extract_event_topics returns at most
EventTopicLimit == 5

\* the default topics after the topics found, whether or not any was found
topics_then_defaults(text) ==
    PyHead(re_findall_each(action_phrases, text) \o default_topics, EventTopicLimit)

_extract_event_topics(text) ==
    LET limited(topics) ==
            IF topics = <<>> THEN PyHead(default_topics, EventTopicLimit)
            ELSE PyHead(topics, EventTopicLimit)
    IN limited(re_findall_each(action_phrases, text))

_generate_event_title(topic) ==
    LET of(low) ==
            IF PyContains(low, "follow") THEN "Follow-up: " \o topic
            ELSE IF PyContains(low, "review") THEN "Review: " \o topic
            ELSE "Discussion: " \o topic
    IN of(PyLower(topic))

\* tomorrow as the fallback, weekend or not
suggest_date_or_tomorrow(dates, index, now) ==
    IF dates # <<>> /\ index < Len(dates) THEN dates[index + 1]
    ELSE DateAfter(now, 1)

\* the first day from tomorrow on that is no Saturday (5) or Sunday (6)
_suggest_date(dates, index, now) ==
    LET RECURSIVE skip(_)
        skip(days) == IF (now + days) % 7 >= 5 THEN skip(days + 1) ELSE DateAfter(now, days)
    IN IF dates # <<>> /\ index < Len(dates) THEN dates[index + 1]
       ELSE skip(1)

_suggest_time(times, index) ==
    IF times # <<>> /\ index < Len(times) THEN times[index + 1]
    ELSE "10:00 AM"

\* how many events extract_events_free suggests at most
EventLimit == 3

\* str(uuid.uuid4()) of the i-th event of a call: what the call draws at
\* random is its seed
uuid4(seed, i) == seed \o "-" \o ToString(i)

\* every event as trusted as the first
confidence_flat(i) == Dec(7, 1)

\* 0.7 - (i * 0.1)
confidence_of(i) == FSub(Dec(7, 1), FMul(FromInt(i), Dec(1, 1)))

\* the topics looked for in the summary as well
events_of_transcript_and_summary(meeting_data_, now, seed) ==
    LET transcript == transcript_of(meeting_data_)
        both == transcript \o " " \o summary_of(meeting_data_)
        events(date_matches, time_matches, topics) ==
            [k \in 1..Len(topics) |->
                [event_id |-> uuid4(seed, k - 1),
                 title |-> _generate_event_title(topics[k]),
                 description |->
                     "Automatically generated from meeting discussion about: " \o topics[k],
                 suggested_date |-> _suggest_date(date_matches, k - 1, now),
                 suggested_time |-> _suggest_time(time_matches, k - 1),
                 duration_minutes |-> 30,
                 confidence |-> confidence_of(k - 1),
                 type |-> "suggested",
                 participants |-> <<>>]]
    IN Ret(events(_extract_dates(both, now), _extract_times(both),
                  PyHead(_extract_event_topics(both), EventLimit)))

extract_events_free(meeting_data_, now, seed) ==
    LET transcript == transcript_of(meeting_data_)
        both == transcript \o " " \o summary_of(meeting_data_)
        events(date_matches, time_matches, topics) ==
            [k \in 1..Len(topics) |->
                [event_id |-> uuid4(seed, k - 1),
                 title |-> _generate_event_title(topics[k]),
                 description |->
                     "Automatically generated from meeting discussion about: " \o topics[k],
                 suggested_date |-> _suggest_date(date_matches, k - 1, now),
                 suggested_time |-> _suggest_time(time_matches, k - 1),
                 duration_minutes |-> 30,
                 confidence |-> confidence_of(k - 1),
                 type |-> "suggested",
                 participants |-> <<>>]]
    IN Ret(events(_extract_dates(both, now), _extract_times(both),
                  PyHead(_extract_event_topics(transcript), EventLimit)))

----------------------------------------------------------------------------
(* Eval: the operation f applied to the arguments v.  Its arms are the      *)
(* float operations named above and the methods of the engine that are      *)
(* called from outside.                                                     *)

Eval(f, v) ==
    CASE f = "BLongDiv" ->
            \* long division limb by limb, each quotient limb estimated from
            \* the top limbs of the running remainder and of the divisor and
            \* corrected downward
            LET an == v[1]
                dn == v[2]
                n == Len(v[2])
                RECURSIVE fix(_, _)
                fix(r, qh) == IF BCmp(BMulSmall(dn, qh), r) > 0 THEN fix(r, qh - 1) ELSE qh
                estimate(r) == (BLimb(r, n + 1) * LimbBase + BLimb(r, n)) \div dn[n]
                digit(r) == IF BCmp(r, dn) < 0 THEN 0
                            ELSE fix(r, IF estimate(r) > LimbBase - 1 THEN LimbBase - 1
                                        ELSE estimate(r))
                RECURSIVE go(_, _, _)
                RECURSIVE bring(_, _, _)
                RECURSIVE put(_, _, _, _)
                \* from the top limb down: r the running remainder, q the
                \* quotient limbs found so far
                go(i, r, q) == IF i = 0 THEN <<BNorm(q), BShr(r, v[3])>>
                               ELSE bring(i, BNorm(<<an[i]>> \o r), q)
                bring(i, cur, q) == put(i, cur, digit(cur), q)
                put(i, cur, qd, q) == go(i - 1, BSub(cur, BMulSmall(dn, qd)), <<qd>> \o q)
            IN go(Len(an), <<>>, <<>>)
      [] f = "BDivMod" ->
            LET a == v[1]
                d == v[2]
                short(one) == <<one[1], BFromNat(one[2])>>
                long(s) == BLongDiv(BShl(a, s), BShl(d, s), s)
            IN IF Len(d) = 1 THEN short(BDivSmall(a, d[1]))
               ELSE long(15 - BitsOf(d[Len(d)]))
      [] f = "FPack" ->
            LET odd(tz) == [s |-> v[1], m |-> BShr(v[2], tz), e |-> v[3] + tz]
            IN odd(BTrailingZeros(v[2]))
      [] f = "BRoundShr" ->
            LET N == v[1]
                sh == v[2]
                sticky == v[3]
                up(q, c) == c > 0 \/ (c = 0 /\ (sticky \/ BBit(q, 0) = 1))
                half(q) == IF up(q, BCmp(BSub(N, BShl(q, sh)), BShl(<<1>>, sh - 1)))
                           THEN BAdd(q, <<1>>) ELSE q
            IN half(BShr(N, sh))
      [] f = "FRound" ->
            LET s == v[1]
                M == v[2]
                E == v[3]
                at(sh) == FPack(s, IF sh <= 0 THEN M ELSE BRoundShr(M, sh, v[4]),
                                IF sh <= 0 THEN E ELSE E + sh)
            IN IF M = <<>> \/ s = 0 THEN FZero
               ELSE at(BBitLen(M) - MantBits)
      [] f = "FromInt" ->
            LET n == v[1]
            IN IF n = 0 THEN FZero
               ELSE FRound(IF n < 0 THEN -1 ELSE 1, BFromNat(IF n < 0 THEN -n ELSE n),
                           0, FALSE)
      [] f = "FAdd" ->
            LET a == v[1]
                b == v[2]
                e == IF a.e < b.e THEN a.e ELSE b.e
                \* the two magnitudes on the smaller exponent, and how they compare
                sum(Ma, Mb, c) ==
                    IF a.s # b.s /\ c = 0 THEN FZero
                    ELSE FRound(IF a.s = b.s \/ c > 0 THEN a.s ELSE b.s,
                                IF a.s = b.s THEN BAdd(Ma, Mb)
                                ELSE IF c > 0 THEN BSub(Ma, Mb) ELSE BSub(Mb, Ma),
                                e, FALSE)
                aligned(Ma, Mb) == sum(Ma, Mb, BCmp(Ma, Mb))
            IN IF a.s = 0 THEN b
               ELSE IF b.s = 0 THEN a
               ELSE aligned(BShl(a.m, a.e - e), BShl(b.m, b.e - e))
      [] f = "FMul" ->
            LET a == v[1]
                b == v[2]
            IN IF a.s = 0 \/ b.s = 0 THEN FZero
               ELSE FRound(a.s * b.s, BMul(a.m, b.m), a.e + b.e, FALSE)
      [] f = "FDiv" ->
            LET a == v[1]
                b == v[2]
                d == MantBits + 2 + BBitLen(b.m) - BBitLen(a.m)
                \* the quotient of the mantissas to MantBits + 2 bits or more
                by(k) == LET of(qr) == FRound(a.s * b.s, qr[1], a.e - b.e - k, qr[2] # <<>>)
                         IN of(BDivMod(BShl(a.m, k), b.m))
            IN IF a.s = 0 THEN FZero
               ELSE by(IF d > 0 THEN d ELSE 0)
      [] f = "FCmp" ->
            LET a == v[1]
                b == v[2]
                ta == a.e + BBitLen(a.m)
                tb == b.e + BBitLen(b.m)
                e == IF a.e < b.e THEN a.e ELSE b.e
                \* -1, 0, 1 as |a| < |b|, |a| = |b|, |a| > |b|
                abs == IF ta > tb THEN 1
                       ELSE IF ta < tb THEN -1
                       ELSE BCmp(BShl(a.m, a.e - e), BShl(b.m, b.e - e))
            IN IF a.s # b.s THEN (IF a.s < b.s THEN -1 ELSE 1)
               ELSE IF a.s = 0 THEN 0
               ELSE a.s * abs
      [] f = "Dec" -> FDiv(FromInt(v[1]), FromInt(10^v[2]))
      [] f = "FScaled" ->
            LET x == v[1]
                of(N) == IF x.e >= 0 THEN BShl(N, x.e) ELSE BRoundShr(N, -x.e, FALSE)
            IN IF x.s = 0 THEN <<>>
               ELSE of(BMul(x.m, BFromNat(10^v[2])))
      [] f = "PyRound" ->
            LET x == v[1]
                of(K) == IF K = <<>> THEN FZero
                         ELSE FDiv(FRound(x.s, K, 0, FALSE), FromInt(10^v[2]))
            IN of(FScaled(x, v[2]))
      [] f = "_calculate_meeting_metrics" -> _calculate_meeting_metrics(v[1])
      [] f = "_analyze_participants" -> _analyze_participants(v[1])
      [] f = "_calculate_participation_balance" ->
            Ret(_calculate_participation_balance(aggregate_speaker_times(segments_of(v[1]))))
      [] f = "_analyze_content" -> _analyze_content(v[1])
      [] f = "_analyze_temporal_patterns" -> _analyze_temporal_patterns(v[1])
      [] f = "_calculate_engagement" -> _calculate_engagement(v[1])
      [] f = "_generate_visualizations" -> _generate_visualizations(v[1])
      [] f = "generate_comprehensive_analytics" -> generate_comprehensive_analytics(v[1])
      [] f = "_cluster_topics" -> Ret(_cluster_topics(transcript_of(v[1])))
      [] f = "extract_events_free" -> extract_events_free(v[1], v[2], v[3])

----------------------------------------------------------------------------
(* Which analyzers a method calls on the record it is given, in the order  *)
(* of the calls.                                                           *)

callees ==
    [method \in {"generate_comprehensive_analytics", "_calculate_meeting_metrics",
                 "_analyze_participants", "_analyze_content",
                 "_analyze_temporal_patterns", "_calculate_engagement",
                 "_generate_visualizations"} |->
        CASE method = "generate_comprehensive_analytics" ->
                 <<"_calculate_meeting_metrics", "_analyze_participants",
                   "_analyze_content", "_analyze_temporal_patterns",
                   "_calculate_engagement", "_generate_visualizations">>
          [] method = "_calculate_engagement" ->
                 <<"_calculate_meeting_metrics", "_analyze_participants">>
          [] method = "_generate_visualizations" ->
                 <<"_analyze_participants", "_analyze_temporal_patterns">>
          [] OTHER -> <<>>]

\* the analyzers that run during a call of the method on the record, the
\* method itself first: a callee that raises is the last one to run
RECURSIVE calls_of(_, _)
calls_of(method, data) ==
    LET RECURSIVE through(_)
        through(k) ==
            IF k > Len(callees[method]) THEN <<>>
            ELSE calls_of(callees[method][k], data)
                 \o (IF Eval(callees[method][k], <<data>>).kind = "raise" THEN <<>>
                     ELSE through(k + 1))
    IN <<method>> \o through(1)

----------------------------------------------------------------------------
(* The operations, as actions on the record at hand *)

\* every service class is the one of its service file (server.py l.33-65)
AllLoaded == [analytics |-> TRUE, calendar |-> TRUE]

\* a record with no field supplied
EmptyRecord ==
    [text |-> "", audio_duration |-> FZero, speaker_count |-> <<>>,
     segments |-> <<>>, summary |-> ""]

\* A method is called on the record at hand; what it returns or raises is kept.

Call_calculate_meeting_metrics ==
    /\ op' = "_calculate_meeting_metrics"
    /\ result' = Eval("_calculate_meeting_metrics", <<meeting_data>>)
    /\ UNCHANGED <<meeting_data, meeting_history, score, services>>

Call_analyze_participants ==
    /\ op' = "_analyze_participants"
    /\ result' = Eval("_analyze_participants", <<meeting_data>>)
    /\ UNCHANGED <<meeting_data, meeting_history, score, services>>

\* on the speaker times of the record's segments
Call_calculate_participation_balance ==
    /\ op' = "_calculate_participation_balance"
    /\ result' = Eval("_calculate_participation_balance", <<meeting_data>>)
    /\ UNCHANGED <<meeting_data, meeting_history, score, services>>

Call_analyze_content ==
    /\ op' = "_analyze_content"
    /\ result' = Eval("_analyze_content", <<meeting_data>>)
    /\ UNCHANGED <<meeting_data, meeting_history, score, services>>

Call_analyze_temporal_patterns ==
    /\ op' = "_analyze_temporal_patterns"
    /\ result' = Eval("_analyze_temporal_patterns", <<meeting_data>>)
    /\ UNCHANGED <<meeting_data, meeting_history, score, services>>

Call_cluster_topics ==
    /\ op' = "_cluster_topics"
    /\ result' = Eval("_cluster_topics", <<meeting_data>>)
    /\ UNCHANGED <<meeting_data, meeting_history, score, services>>

Call_calculate_engagement ==
    /\ op' = "_calculate_engagement"
    /\ result' = Eval("_calculate_engagement", <<meeting_data>>)
    /\ UNCHANGED <<meeting_data, meeting_history, score, services>>

Call_generate_visualizations ==
    /\ op' = "_generate_visualizations"
    /\ result' = Eval("_generate_visualizations", <<meeting_data>>)
    /\ UNCHANGED <<meeting_data, meeting_history, score, services>>

\* an engine that keeps the record it analysed last
Call_generate_and_remember ==
    /\ op' = "generate_comprehensive_analytics"
    /\ result' = Eval("generate_comprehensive_analytics", <<meeting_data>>)
    /\ meeting_history' = <<meeting_data>>
    /\ UNCHANGED <<meeting_data, score, services>>

Call_generate_comprehensive_analytics ==
    /\ op' = "generate_comprehensive_analytics"
    /\ result' = Eval("generate_comprehensive_analytics", <<meeting_data>>)
    /\ UNCHANGED <<meeting_data, meeting_history, score, services>>

----------------------------------------------------------------------------
(* Meetings: a record is filled field by field, and any operation may be    *)
(* called on it as it stands.                                               *)

MaxSegments == 2

Transcripts ==
    {"", " ?! ", "We decided to ship the beta. Great progress overall today! Any problem?"}

AudioDurations == {FromInt(0), FromInt(90)}

SpeakerCounts == {2}

\* a segment of no length without a speaker, and a turn
Turns ==
    {[speaker |-> NoSpeaker, start_time |-> FZero, end_time |-> FZero, duration |-> FZero],
     [speaker |-> "Alice", start_time |-> Dec(15, 1), end_time |-> FromInt(30),
      duration |-> Dec(285, 1)]}

SetTranscript(text) ==
    /\ meeting_data' = [meeting_data EXCEPT !.text = text]
    /\ op' = ""
    /\ result' = NoResult
    /\ UNCHANGED <<meeting_history, score, services>>

SetAudioDuration(seconds) ==
    /\ meeting_data' = [meeting_data EXCEPT !.audio_duration = seconds]
    /\ op' = ""
    /\ result' = NoResult
    /\ UNCHANGED <<meeting_history, score, services>>

SetSpeakerCount(count) ==
    /\ meeting_data' = [meeting_data EXCEPT !.speaker_count = <<count>>]
    /\ op' = ""
    /\ result' = NoResult
    /\ UNCHANGED <<meeting_history, score, services>>

AddSegment(segment) ==
    /\ Len(meeting_data.segments) < MaxSegments
    /\ meeting_data' = [meeting_data EXCEPT !.segments = Append(@, segment)]
    /\ op' = ""
    /\ result' = NoResult
    /\ UNCHANGED <<meeting_history, score, services>>

Init ==
    /\ meeting_data = EmptyRecord
    /\ op = ""
    /\ result = NoResult
    /\ meeting_history = <<>>
    /\ score = FZero
    /\ services = AllLoaded

Next ==
    \/ \E text \in Transcripts : SetTranscript(text)
    \/ \E seconds \in AudioDurations : SetAudioDuration(seconds)
    \/ \E count \in SpeakerCounts : SetSpeakerCount(count)
    \/ \E segment \in Turns : AddSegment(segment)
    \/ Call_calculate_meeting_metrics
    \/ Call_analyze_participants
    \/ Call_calculate_participation_balance
    \/ Call_analyze_content
    \/ Call_analyze_temporal_patterns
    \/ Call_calculate_engagement
    \/ Call_generate_visualizations
    \/ Call_generate_comprehensive_analytics

Spec == Init /\ [][Next]_vars

----------------------------------------------------------------------------
(* Panels: many speakers with one segment each.  Speaker k holds the k-th   *)
(* segment; the durations are x ... x or x ... x y ... y, where y is the     *)
(* longest duration; the segments follow one another without a gap.         *)

MaxPanel == 23

\* in ascending order
PanelDurations == <<FromInt(0), FromInt(1), Dec(1689, 3), FromInt(3)>>

JoinPanel(d) ==
    LET segs == meeting_data.segments
        n == Len(segs)
        start == IF n = 0 THEN FZero ELSE segs[n].end_time
    IN /\ n < MaxPanel
       /\ n > 0 => \/ segs[n].duration = d
                   \/ /\ d = PanelDurations[Len(PanelDurations)]
                      /\ \A i \in 1..n : segs[i].duration = segs[1].duration
       /\ meeting_data' =
            [meeting_data EXCEPT !.segments =
                Append(segs, [speaker |-> "S" \o ToString(n + 1),
                              start_time |-> start,
                              end_time |-> FAdd(start, d),
                              duration |-> d])]
       /\ op' = ""
       /\ result' = NoResult
       /\ UNCHANGED <<meeting_history, score, services>>

InitPanel ==
    /\ meeting_data = EmptyRecord
    /\ op = ""
    /\ result = NoResult
    /\ meeting_history = <<>>
    /\ score = FZero
    /\ services = AllLoaded

NextPanel ==
    \/ \E k \in 1..Len(PanelDurations) : JoinPanel(PanelDurations[k])
    \/ Call_analyze_participants
    \/ Call_calculate_participation_balance

SpecPanel == InitPanel /\ [][NextPanel]_vars

----------------------------------------------------------------------------
(* Planning: the transcript grows sentence by sentence, the summary is set, *)
(* and the calendar service is asked for events.  A call draws the day it   *)
(* is made on and the random part of its event identifiers.                 *)

MaxSentences == 2

Sentences ==
    {"Follow up on the review of fees.",
     "Meet about a review next Monday at 2 PM!",
     "No plans."}

Summaries == {"", "Review it on 3/14/25 at 10:30."}

\* Monday = 0 ... Sunday = 6, as datetime.weekday()
Weekdays == 0..6

Seeds == {"1f0e", "9c2b"}

\* the sentences said so far
Said == Len(re_split_sentences(meeting_data.text)) - 1

Say(sentence) ==
    /\ Said < MaxSentences
    /\ meeting_data' =
           [meeting_data EXCEPT !.text = IF @ = "" THEN sentence ELSE @ \o " " \o sentence]
    /\ op' = ""
    /\ result' = NoResult
    /\ UNCHANGED <<meeting_history, score, services>>

SetSummary(summary) ==
    /\ meeting_data' = [meeting_data EXCEPT !.summary = summary]
    /\ op' = ""
    /\ result' = NoResult
    /\ UNCHANGED <<meeting_history, score, services>>

\* the server asks once for a record (server.py, process_meeting)
Call_extract_events_free(now, seed) ==
    /\ op # "extract_events_free"
    /\ op' = "extract_events_free"
    /\ result' = Eval("extract_events_free", <<meeting_data, now, seed>>)
    /\ UNCHANGED <<meeting_data, meeting_history, score, services>>

InitCalendar ==
    /\ meeting_data = EmptyRecord
    /\ op = ""
    /\ result = NoResult
    /\ meeting_history = <<>>
    /\ score = FZero
    /\ services = AllLoaded

NextCalendar ==
    \/ \E sentence \in Sentences : Say(sentence)
    \/ \E summary \in Summaries : SetSummary(summary)
    \/ \E now \in Weekdays, seed \in Seeds : Call_extract_events_free(now, seed)

SpecCalendar == InitCalendar /\ [][NextCalendar]_vars

----------------------------------------------------------------------------
(* Timelines: turns of several speakers, recorded in any order, a turn at   *)
(* most once.  Bob speaks twice, one turn has no speaker, and one is        *)
(* malformed: it ends before it starts and its duration is negative.        *)

MaxTurns == 3

Turn(speaker, start_time, end_time) ==
    [speaker |-> speaker, start_time |-> FromInt(start_time), end_time |-> FromInt(end_time),
     duration |-> FromInt(end_time - start_time)]

TimelineTurns ==
    {Turn("Alice", 0, 10), Turn("Bob", 10, 15), Turn("Bob", 20, 25),
     Turn(NoSpeaker, 12, 27), Turn("Carol", 45, 30), Turn("Alice", 27, 27)}

RecordTurn(turn) ==
    /\ Len(meeting_data.segments) < MaxTurns
    /\ \A k \in 1..Len(meeting_data.segments) : meeting_data.segments[k] # turn
    /\ meeting_data' = [meeting_data EXCEPT !.segments = Append(@, turn)]
    /\ op' = ""
    /\ result' = NoResult
    /\ UNCHANGED <<meeting_history, score, services>>

InitTimeline ==
    /\ meeting_data = EmptyRecord
    /\ op = ""
    /\ result = NoResult
    /\ meeting_history = <<>>
    /\ score = FZero
    /\ services = AllLoaded

NextTimeline ==
    \/ \E turn \in TimelineTurns : RecordTurn(turn)
    \/ Call_analyze_participants
    \/ Call_analyze_temporal_patterns

SpecTimeline == InitTimeline /\ [][NextTimeline]_vars

----------------------------------------------------------------------------
(* Topics: the transcript is a run of remarks, each made at most once.  The *)
(* first FreeOrder remarks of the list come up in any order, the others     *)
(* after them in the order of the list.  The third remark shares a key word *)
(* with the first and another with the second, the fourth shares one with   *)
(* the second and the third; the others share none.                         *)

MaxRemarks == 6

FreeOrder == 3

Remarks ==
    <<"The budget plan needs sign off.",
      "Our hiring pipeline looks thin.",
      "Budget and hiring are tied up!",
      "Hiring costs went up again.",
      "Customers like faster login a lot.",
      "Legal wants another week for it?",
      "Marketing ships video in May.",
      "Server room gets cold at night.">>

\* the remarks made so far, as indices of the list
Made == {k \in 1..Len(Remarks) : PyContains(meeting_data.text, Remarks[k])}

Remark(k) ==
    /\ Cardinality(Made) < MaxRemarks
    /\ k \notin Made
    /\ \A j \in Made : j < k \/ (j <= FreeOrder /\ k <= FreeOrder)
    /\ meeting_data' =
           [meeting_data EXCEPT !.text = IF @ = "" THEN Remarks[k] ELSE @ \o " " \o Remarks[k]]
    /\ op' = ""
    /\ result' = NoResult
    /\ UNCHANGED <<meeting_history, score, services>>

InitTopics ==
    /\ meeting_data = EmptyRecord
    /\ op = ""
    /\ result = NoResult
    /\ meeting_history = <<>>
    /\ score = FZero
    /\ services = AllLoaded

NextTopics ==
    \/ \E k \in 1..Len(Remarks) : Remark(k)
    \/ Call_cluster_topics

SpecTopics == InitTopics /\ [][NextTopics]_vars

----------------------------------------------------------------------------
(* Minutes: the transcript is a run of notes, in any order, each taken at   *)
(* most once.  The notes hold decisions, words of sentiment (one of them    *)
(* twice, one inside another word, one in capitals), and a sentence of more *)
(* than 50 characters.                                                      *)

MaxNotes == 3

Notes ==
    <<"We decided to ship the beta. Good, good work!",
      "One problem: the goodness of fit is poor.",
      "We will see. It will do. Should we wait?",
      "Marketing agreed that the launch event is going to happen in early September.",
      "GREAT!",
      "Ok.">>

\* the notes taken so far, as indices of the list
Taken == {k \in 1..Len(Notes) : PyContains(meeting_data.text, Notes[k])}

Note(k) ==
    /\ Cardinality(Taken) < MaxNotes
    /\ k \notin Taken
    /\ meeting_data' =
           [meeting_data EXCEPT !.text = IF @ = "" THEN Notes[k] ELSE @ \o " " \o Notes[k]]
    /\ op' = ""
    /\ result' = NoResult
    /\ UNCHANGED <<meeting_history, score, services>>

InitMinutes ==
    /\ meeting_data = EmptyRecord
    /\ op = ""
    /\ result = NoResult
    /\ meeting_history = <<>>
    /\ score = FZero
    /\ services = AllLoaded

NextMinutes ==
    \/ \E k \in 1..Len(Notes) : Note(k)
    \/ Call_analyze_content

SpecMinutes == InitMinutes /\ [][NextMinutes]_vars

-----------------------------------------------------------------------------
(* The recommendations for a score: a caller hands a mean ratio between 0  *)
(* and 1 to _generate_engagement_recommendations.                          *)

\* the scores are the hundredths 0.00, 0.01, ... up to ScoreSteps hundredths
ScoreSteps == 100

Scores == {Dec(k, 2) : k \in 0..ScoreSteps}

SetScore(score_) ==
    /\ score' = score_
    /\ op' = ""
    /\ result' = NoResult
    /\ UNCHANGED <<meeting_data, meeting_history, services>>

Call_generate_engagement_recommendations ==
    /\ op' = "_generate_engagement_recommendations"
    /\ result' = Ret(_generate_engagement_recommendations(score))
    /\ UNCHANGED <<meeting_data, meeting_history, score, services>>

InitEngagement ==
    /\ meeting_data = EmptyRecord
    /\ op = ""
    /\ result = NoResult
    /\ meeting_history = <<>>
    /\ score \in Scores
    /\ services = AllLoaded

NextEngagement ==
    \/ \E score_ \in Scores : SetScore(score_)
    \/ Call_generate_engagement_recommendations

SpecEngagement == InitEngagement /\ [][NextEngagement]_vars

-----------------------------------------------------------------------------
(* server.py, analyze_audio_free: the upload is saved and enhanced, the     *)
(* placeholder result is built, the analytics and the calendar suggestions  *)
(* are added to it, each under its own try, and the result is answered as   *)
(* JSON; whatever is raised outside the two try blocks is answered with 500. *)
(* meeting_data is the result dictionary of the request, as far as the      *)
(* services read it, with the two keys the handler adds.                    *)

\* what the FreeAnalyticsEngine of server.py returns, the one that stands in
\* when Advanced-analytics.py cannot be loaded
FallbackAnalytics ==
    [meeting_metrics |-> [duration_minutes |-> 0, word_count |-> 0, sentence_count |-> 0,
                          words_per_minute |-> 0, speaker_count |-> 1, unique_topics |-> 0],
     participant_insights |-> [analysis |-> "No data available"],
     content_analysis |-> [topic_clusters |-> <<>>, sentiment_trend |-> "neutral",
                           keyword_evolution |-> <<>>, question_count |-> 0,
                           decision_points |-> <<>>],
     temporal_patterns |-> [analysis |-> "No temporal data available"],
     engagement_score |-> [overall_score |-> FromInt(50),
                           components |-> [content_richness |-> FromInt(50),
                                           participation_balance |-> FromInt(50),
                                           topic_diversity |-> FromInt(50)],
                           recommendations |-> <<>>],
     visualizations |-> [speaker_pie_chart |-> [labels |-> <<>>, values |-> <<>>],
                         activity_timeline |-> [time_points |-> <<>>, activity_levels |-> <<>>],
                         engagement_radar |-> [metrics |-> <<>>, scores |-> <<>>]]]

\* the keys of the placeholder result that the services read
_build_placeholder_result(audio_duration) ==
    [text |-> "This is a placeholder transcript generated in free mode. "
              \o "Replace with a transcription model if desired.",
     audio_duration |-> audio_duration,
     speaker_count |-> <<2>>,
     segments |-> <<[speaker |-> "S1", start_time |-> FZero, end_time |-> Dec(52, 1),
                     duration |-> Dec(52, 1)],
                    [speaker |-> "S2", start_time |-> Dec(52, 1), end_time |-> Dec(108, 1),
                     duration |-> Dec(56, 1)],
                    [speaker |-> "S1", start_time |-> Dec(108, 1), end_time |-> FromInt(18),
                     duration |-> Dec(72, 1)]>>,
     summary |-> "The meeting covered project updates, discussed blockers, "
                 \o "and outlined next steps."]

\* try: result["advanced_analytics"] = advanced; except: {"error": str(e)}
add_advanced_analytics(built) ==
    LET guarded(advanced) ==
            built @@ [advanced_analytics |-> IF advanced.kind = "raise"
                                             THEN [error |-> advanced.exc]
                                             ELSE advanced.value]
    IN guarded(IF services.analytics
               THEN Eval("generate_comprehensive_analytics", <<built>>)
               ELSE Ret(FallbackAnalytics))

\* try: result["calendar_suggestions"] = events; except: []
\* (the FreeCalendarService of server.py returns no event)
add_calendar_suggestions(built, now, seed) ==
    LET guarded(events) ==
            built @@ [calendar_suggestions |-> IF events.kind = "raise" THEN <<>>
                                               ELSE events.value]
    IN guarded(IF services.calendar THEN Eval("extract_events_free", <<built, now, seed>>)
               ELSE Ret(<<>>))

\* json.dumps(content), as JSONResponse renders its content: a datetime, as
\* the suggested_date of an event is one, is not serializable
json_dumps(content) ==
    IF \E k \in 1..Len(content.calendar_suggestions) :
           "suggested_date" \in DOMAIN content.calendar_suggestions[k]
    THEN Raise("TypeError")
    ELSE Ret(content)

\* the response for the result built: JSONResponse(content=result) inside
\* the outer try, JSONResponse(status_code=500, ...) in its except
JSONResponse(content) ==
    LET rendered(body) ==
            IF body.kind = "raise"
            THEN [status_code |-> 500, content |-> [error |-> body.exc]]
            ELSE [status_code |-> 200, content |-> body.value]
    IN rendered(json_dumps(content))

\* what saving and enhancing the upload gives: the duration of the enhanced
\* audio (0 from an enhancer that failed or stands in), or an exception
Enhancements ==
    {Raise("OSError"), Ret(FZero), Ret(FromInt(18)), Ret(FromInt(60)), Ret(FromInt(90))}

\* the next upload arrives: a request starts with nothing built or answered
Receive_upload ==
    /\ op = "analyze_audio_free"
    /\ op' = ""
    /\ meeting_data' = EmptyRecord
    /\ result' = NoResult
    /\ UNCHANGED <<meeting_history, score, services>>

\* the handler runs once for the upload received
Call_analyze_audio_free ==
    /\ op = ""
    /\ op' = "analyze_audio_free"
    /\ \E enhancement \in Enhancements :
          IF enhancement.kind = "raise"
          THEN /\ meeting_data' = EmptyRecord
               /\ result' = Ret([status_code |-> 500, content |-> [error |-> enhancement.exc]])
          ELSE LET analysed(built) ==
                       \E now \in Weekdays, seed \in Seeds :
                           LET answered(content) ==
                                   /\ meeting_data' = content
                                   /\ result' = Ret(JSONResponse(content))
                           IN answered(add_calendar_suggestions(built, now, seed))
               IN analysed(add_advanced_analytics(_build_placeholder_result(enhancement.value)))
    /\ UNCHANGED <<meeting_history, score, services>>

InitServer ==
    /\ meeting_data = EmptyRecord
    /\ op = ""
    /\ result = NoResult
    /\ meeting_history = <<>>
    /\ score = FZero
    /\ services \in [analytics : BOOLEAN, calendar : BOOLEAN]

NextServer ==
    \/ Receive_upload
    \/ Call_analyze_audio_free

SpecServer == InitServer /\ [][NextServer]_vars

----------------------------------------------------------------------------
(* Properties.  A state with op = m holds in result what method m returned  *)
(* or raised for the record in meeting_data.                                *)

Sections ==
    {"meeting_metrics", "participant_insights", "content_analysis",
     "temporal_patterns", "engagement_score", "visualizations"}

\* the aggregated speaking times of the record at hand, in dictionary order
TimesNow == dict_values(aggregate_speaker_times(segments_of(meeting_data)))

\* no speaker has spoken (also: there is no speaker)
Silent == \A i \in 1..Len(TimesNow) : TimesNow[i].s = 0

\* one or more speakers, all with the same positive time
EqualShares ==
    /\ Len(TimesNow) >= 1
    /\ TimesNow[1].s > 0
    /\ \A i \in 1..Len(TimesNow) : TimesNow[i] = TimesNow[1]

\* two or more speakers, one of them with all of the time
OneHoldsAll ==
    /\ Len(TimesNow) >= 2
    /\ \E i \in 1..Len(TimesNow) :
          /\ TimesNow[i].s > 0
          /\ \A j \in 1..Len(TimesNow) : j # i => TimesNow[j].s = 0

\* the reported percentages in hundredths of a percent, added up
PercentSum(distribution) ==
    LET upto[i \in 0..Len(distribution)] ==
            IF i = 0 THEN 0
            ELSE upto[i - 1] + BToNat(FScaled(distribution[i].percentage, 2))
    IN upto[Len(distribution)]

\* how far a sum of hundredths is from 100 percent
OffHundred(k) == IF k >= 10000 THEN k - 10000 ELSE 10000 - k

\* C1: generate_comprehensive_analytics completes without raising for every
\* record, the degenerate one included, and returns a report with exactly the
\* six sections.
C1_ReportHasSixSections ==
    op = "generate_comprehensive_analytics" =>
        /\ result.kind = "return"
        /\ DOMAIN result.value = Sections

\* C1: the degenerate record makes generate_comprehensive_analytics raise.
C1_DegenerateRaises ==
    /\ op = "generate_comprehensive_analytics"
    /\ meeting_data = EmptyRecord
    /\ result = Raise("IndexError")

\* C2: _calculate_engagement returns, for every record, a score between 0 and
\* 100.
C2_EngagementScoreReturned ==
    op = "_calculate_engagement" =>
        /\ result.kind = "return"
        /\ FLeq(FZero, result.value.overall_score)
        /\ FLeq(result.value.overall_score, FromInt(100))

\* C2: the degenerate record makes _calculate_engagement raise.
C2_DegenerateRaises ==
    /\ op = "_calculate_engagement"
    /\ meeting_data = EmptyRecord
    /\ result = Raise("TypeError")

\* C3: for the record with empty transcript, zero duration, no segments and
\* nothing else supplied, _calculate_meeting_metrics reports 0 for every field
\* but speaker_count, which is 1.
C3_DegenerateMetrics ==
    (op = "_calculate_meeting_metrics" /\ meeting_data = EmptyRecord) =>
        result = Ret([duration_minutes |-> FZero, word_count |-> 0,
                      sentence_count |-> 0, words_per_minute |-> FZero,
                      speaker_count |-> 1, unique_topics |-> 0])

\* C3, as stated: every field is 0, speaker_count too.
C3_DegenerateMetricsAllZero ==
    (op = "_calculate_meeting_metrics" /\ meeting_data = EmptyRecord) =>
        result = Ret([duration_minutes |-> FZero, word_count |-> 0,
                      sentence_count |-> 0, words_per_minute |-> FZero,
                      speaker_count |-> 0, unique_topics |-> 0])

\* C3: the degenerate record measured.
C3_DegenerateMeasured ==
    /\ op = "_calculate_meeting_metrics"
    /\ meeting_data = EmptyRecord
    /\ result.kind = "return"
    /\ result.value.word_count = 0

\* C4: _analyze_participants and _analyze_temporal_patterns always return
\* (never raise); with no segments they return their marker, a record with
\* the one field analysis; with one segment or more they return no marker.
C4_MarkersIffNoSegments ==
    /\ op = "_analyze_participants" =>
          /\ result.kind = "return"
          /\ Len(meeting_data.segments) = 0 =>
                /\ result.value.analysis = "Insufficient speaker data"
                /\ DOMAIN result.value = {"analysis"}
          /\ Len(meeting_data.segments) > 0 =>
                /\ "analysis" \notin DOMAIN result.value
                /\ "participation_balance" \in DOMAIN result.value
    /\ op = "_analyze_temporal_patterns" =>
          /\ result.kind = "return"
          /\ Len(meeting_data.segments) = 0 =>
                /\ result.value.analysis = "No temporal data available"
                /\ DOMAIN result.value = {"analysis"}
          /\ Len(meeting_data.segments) > 0 =>
                /\ "analysis" \notin DOMAIN result.value
                /\ "activity_over_time" \in DOMAIN result.value

\* C4: a record with a transcript and no segments gets the participants' marker.
C4_MarkerReturned ==
    /\ op = "_analyze_participants"
    /\ Len(meeting_data.segments) = 0
    /\ meeting_data.text # ""
    /\ result = Ret([analysis |-> "Insufficient speaker data"])

\* C5: when the total speaking time is positive, the percentages of the n
\* speakers, each rounded to 2 decimals, add up to 100 within 0.005 * n: within
\* 0.1 for up to 20 speakers.
C5_PercentagesSum ==
    (op = "_analyze_participants" /\ Len(meeting_data.segments) > 0 /\ ~Silent) =>
        /\ result.kind = "return"
        /\ 2 * OffHundred(PercentSum(result.value.speaking_time_distribution))
              <= Len(result.value.speaking_time_distribution)

\* C5, as stated: the percentages add up to 100 within 0.1 for any number of
\* speakers.
C5_PercentagesSumWithinTenth ==
    (op = "_analyze_participants" /\ Len(meeting_data.segments) > 0 /\ ~Silent) =>
        /\ result.kind = "return"
        /\ OffHundred(PercentSum(result.value.speaking_time_distribution)) <= 10

\* C5: more than 20 speakers with a positive total reported.
C5_LargePanelReported ==
    /\ op = "_analyze_participants"
    /\ ~Silent
    /\ result.kind = "return"
    /\ Len(result.value.speaking_time_distribution) > 20

\* C6: for one speaker or more, all with the same positive time,
\* _calculate_participation_balance returns exactly 1.0.
C6_EqualSharesBalanceOne ==
    (op = "_calculate_participation_balance" /\ EqualShares) =>
        result = Ret(FromInt(1))

\* C6: equal positive times with a balance other than 1.0.
C6_EqualSharesOffOne ==
    /\ op = "_calculate_participation_balance"
    /\ EqualShares
    /\ result.kind = "return"
    /\ result.value # FromInt(1)

\* C7: when one of n >= 2 speakers holds all of the time and the others hold
\* 0, the balance is 1/n (n times the balance is 1 to 9 decimals).
C7_OneHoldsAllBalance ==
    (op = "_calculate_participation_balance" /\ OneHoldsAll) =>
        /\ result.kind = "return"
        /\ PyRound(FMul(FromInt(Len(TimesNow)), result.value), 9) = FromInt(1)

\* C7, as stated: when one speaker holds all of the time and the others hold
\* 0, the balance is 0.
C7_OneHoldsAllBalanceZero ==
    (op = "_calculate_participation_balance" /\ OneHoldsAll) =>
        result = Ret(FZero)

\* C7: three speakers or more, one of them holding all of the time.
C7_OneOfManyHoldsAll ==
    /\ op = "_calculate_participation_balance"
    /\ OneHoldsAll
    /\ Len(TimesNow) >= 3
    /\ result.kind = "return"

\* C8: _calculate_participation_balance returns a value in [0, 1] for every
\* mapping of speakers to non-negative times.
C8_BalanceInUnitInterval ==
    op = "_calculate_participation_balance" =>
        /\ result.kind = "return"
        /\ FLeq(FZero, result.value)
        /\ FLeq(result.value, FromInt(1))

\* C8: a balance above 1.
C8_BalanceAboveOne ==
    /\ op = "_calculate_participation_balance"
    /\ result.kind = "return"
    /\ FLess(FromInt(1), result.value)

\* C9: when the total speaking time is 0 or there are no speakers, the
\* balance is 0.5; when segments exist and the total is 0,
\* _analyze_participants returns (does not raise) with balance 0.5 and every
\* percentage 0.
C9_NeutralBalanceOnZeroTotal ==
    /\ (op = "_calculate_participation_balance" /\ Silent) =>
          result = Ret(Dec(5, 1))
    /\ (op = "_analyze_participants" /\ Len(meeting_data.segments) > 0 /\ Silent) =>
          /\ result.kind = "return"
          /\ result.value.participation_balance = Dec(5, 1)
          /\ \A i \in 1..Len(result.value.speaking_time_distribution) :
                result.value.speaking_time_distribution[i].percentage = FZero

\* C9: two speakers or more with a total of 0 reported.
C9_SilentPanelReported ==
    /\ op = "_analyze_participants"
    /\ Len(meeting_data.segments) >= 2
    /\ Silent
    /\ result.kind = "return"
    /\ Len(result.value.speaking_time_distribution) >= 2

\* C10: with one segment or more, _analyze_temporal_patterns returns
\* activity_over_time with exactly 9 entries, whatever the segments' times.
C10_NineActivityEntries ==
    (op = "_analyze_temporal_patterns" /\ Len(meeting_data.segments) >= 1) =>
        /\ result.kind = "return"
        /\ Len(result.value.activity_over_time) = 9

\* C10: nine entries where every segment ends at 0.
C10_NineEntriesAtZeroEnd ==
    /\ op = "_analyze_temporal_patterns"
    /\ Len(meeting_data.segments) >= 1
    /\ \A i \in 1..Len(meeting_data.segments) : meeting_data.segments[i].end_time = FZero
    /\ result.kind = "return"
    /\ Len(result.value.activity_over_time) = 9

\* the events of the call that has just returned
EventsNow == IF op = "extract_events_free" /\ result.kind = "return" THEN result.value ELSE <<>>

\* the topics the action phrases find in the transcript, the default ones
\* not counted
TopicsFound == re_findall_each(action_phrases, transcript_of(meeting_data))

\* C11 as stated: extract_events_free returns at most 3 events, the i-th
\* (from 0) with confidence 0.7 - 0.1 i: 0.7, 0.6, 0.5, each less than the
\* one before and in [0, 1].
C11_ConfidenceLadder ==
    op = "extract_events_free" =>
        /\ result.kind = "return"
        /\ Len(result.value) <= 3
        /\ \A k \in 1..Len(result.value) :
              /\ result.value[k].confidence = Dec(8 - k, 1)
              /\ FLeq(FZero, result.value[k].confidence)
              /\ FLeq(result.value[k].confidence, FromInt(1))
              /\ k > 1 => FLess(result.value[k].confidence, result.value[k - 1].confidence)

\* C11, amended: extract_events_free returns at most 3 events; the
\* confidences are what binary64 gives for 0.7 - i * 0.1, that is 0.7, 0.6
\* and a value just below 0.5 that is 0.5 to nine decimals; each is less
\* than the one before and lies in [0, 1].
C11_ConfidenceLadderInFloats ==
    op = "extract_events_free" =>
        /\ result.kind = "return"
        /\ Len(result.value) <= 3
        /\ \A k \in 1..Len(result.value) :
              /\ k <= 2 => result.value[k].confidence = Dec(8 - k, 1)
              /\ k = 3 => /\ FLess(result.value[k].confidence, Dec(5, 1))
                          /\ PyRound(result.value[k].confidence, 9) = Dec(5, 1)
              /\ FLeq(FZero, result.value[k].confidence)
              /\ FLeq(result.value[k].confidence, FromInt(1))
              /\ k > 1 => FLess(result.value[k].confidence, result.value[k - 1].confidence)

\* a call that found four topics in the transcript and returned three events
C11_FourTopicsThreeEvents ==
    /\ Len(EventsNow) = 3
    /\ Len(TopicsFound) = 4

\* the description of an event about the topic
About(topic) == "Automatically generated from meeting discussion about: " \o topic

\* C12: when no action phrase matches the transcript, extract_events_free
\* returns exactly 3 events, about "Action Items", "Project Update" and
\* "Team Discussion" in this order; when a phrase matches, the events are
\* about the first topics found and none is about a default topic.
C12_DefaultTopicsIffNoMatch ==
    op = "extract_events_free" =>
        /\ result.kind = "return"
        /\ IF TopicsFound = <<>>
           THEN /\ Len(result.value) = 3
                /\ result.value[1].description = About("Action Items")
                /\ result.value[2].description = About("Project Update")
                /\ result.value[3].description = About("Team Discussion")
                /\ \A k \in 1..3 : result.value[k].title = "Discussion: " \o default_topics[k]
           ELSE /\ Len(result.value) = Len(PyHead(TopicsFound, 3))
                /\ \A k \in 1..Len(result.value) :
                      /\ result.value[k].description = About(TopicsFound[k])
                      /\ \A d \in 1..Len(default_topics) :
                            result.value[k].description # About(default_topics[d])

\* a call on a transcript that says something, but nothing to plan, returned
\* the three default events
C12_DefaultsForIdleTalk ==
    /\ Len(EventsNow) = 3
    /\ transcript_of(meeting_data) # ""
    /\ TopicsFound = <<>>
    /\ EventsNow[1].description = About(default_topics[1])

\* the name a segment is counted under
NameOf(k) ==
    IF meeting_data.segments[k].speaker = NoSpeaker THEN "Unknown"
    ELSE meeting_data.segments[k].speaker

\* the durations of the segments counted under the name, added up in the
\* order of the segments
SpokenBy(name) ==
    LET RECURSIVE upto(_)
        upto(k) == IF k = 0 THEN FZero
                   ELSE IF NameOf(k) = name
                   THEN FAdd(upto(k - 1), meeting_data.segments[k].duration)
                   ELSE upto(k - 1)
    IN upto(Len(meeting_data.segments))

\* C13: dominant_speaker is a speaker of some segment (a segment without a
\* speaker counting under "Unknown"), no speaker's summed duration is
\* greater, and every speaker whose first segment comes before the dominant
\* speaker's first segment has a smaller summed duration.
C13_DominantSpeakerFirstOfLongest ==
    (op = "_analyze_participants" /\ meeting_data.segments # <<>>) =>
        /\ result.kind = "return"
        /\ \E first \in 1..Len(meeting_data.segments) :
              /\ NameOf(first) = result.value.dominant_speaker
              /\ \A k \in 1..Len(meeting_data.segments) :
                    /\ FLeq(SpokenBy(NameOf(k)), SpokenBy(NameOf(first)))
                    /\ k < first =>
                          \/ NameOf(k) = NameOf(first)
                          \/ FLess(SpokenBy(NameOf(k)), SpokenBy(NameOf(first)))

\* Bob (5 + 5 seconds in two turns) and Alice (10 seconds) tie, Alice spoke
\* first and is reported
C13_TieGoesToFirst ==
    /\ op = "_analyze_participants"
    /\ Len(meeting_data.segments) = 3
    /\ NameOf(1) = "Alice" /\ NameOf(2) = "Bob" /\ NameOf(3) = "Bob"
    /\ SpokenBy("Alice") = SpokenBy("Bob")
    /\ result.kind = "return"
    /\ result.value.dominant_speaker = "Alice"

\* the record at hand with another transcript
WithTranscript(text) == [meeting_data EXCEPT !.text = text]

\* what _calculate_meeting_metrics reports for a record
MetricsOf(data) == Eval("_calculate_meeting_metrics", <<data>>).value

\* C14: with the segments, and so the participation balance, left as they
\* are, a transcript with as many unique topics and no more words gets no
\* higher an overall_score, and the same score when both have 500 words or
\* more.
C14_ScoreMonotoneInWords ==
    op = "_calculate_engagement" =>
        /\ result.kind = "return"
        /\ \A text \in Transcripts :
              LET other == Eval("_calculate_engagement", <<WithTranscript(text)>>)
                  fewer == MetricsOf(WithTranscript(text))
                  mine == MetricsOf(meeting_data)
              IN (fewer.unique_topics = mine.unique_topics
                     /\ fewer.word_count <= mine.word_count) =>
                    /\ other.kind = "return"
                    /\ FLeq(other.value.overall_score, result.value.overall_score)
                    /\ fewer.word_count >= 500 =>
                          other.value.overall_score = result.value.overall_score

\* _calculate_engagement raised on a record whose transcript has words
C14_NoScoreForWords ==
    /\ op = "_calculate_engagement"
    /\ MetricsOf(meeting_data).word_count > 0
    /\ result = Raise("TypeError")

\* the record at hand has a negative audio duration, or a segment that ends
\* before it starts or has a negative duration
Malformed ==
    \/ FLess(meeting_data.audio_duration, FZero)
    \/ \E k \in 1..Len(meeting_data.segments) :
          \/ FLess(meeting_data.segments[k].end_time, meeting_data.segments[k].start_time)
          \/ FLess(meeting_data.segments[k].duration, FZero)

\* C15: a call on a malformed record is rejected: it raises, and returns
\* nothing computed from the record.
C15_MalformedRejected ==
    (op # "" /\ Malformed) => result.kind = "raise"

\* _analyze_participants returned a distribution in which a speaker has a
\* negative speaking time, taken from a segment that ends before it starts
C15_NegativeTimeReported ==
    /\ op = "_analyze_participants"
    /\ Malformed
    /\ result.kind = "return"
    /\ \E k \in 1..Len(result.value.speaking_time_distribution) :
          FLess(result.value.speaking_time_distribution[k].time_seconds, FZero)

\* the analyzer behind each section of the report
AnalyzerOf ==
    [section \in Sections |->
        CASE section = "meeting_metrics" -> "_calculate_meeting_metrics"
          [] section = "participant_insights" -> "_analyze_participants"
          [] section = "content_analysis" -> "_analyze_content"
          [] section = "temporal_patterns" -> "_analyze_temporal_patterns"
          [] section = "engagement_score" -> "_calculate_engagement"
          [] section = "visualizations" -> "_generate_visualizations"]

\* C16: generate_comprehensive_analytics returns a report, and every analyzer
\* that does not fail on the record has its section, with what it returns, in
\* the report.
C16_OtherSectionsSurvive ==
    op = "generate_comprehensive_analytics" =>
        /\ result.kind = "return"
        /\ \A section \in Sections :
              LET alone == Eval(AnalyzerOf[section], <<meeting_data>>)
              IN alone.kind = "return" =>
                    /\ section \in DOMAIN result.value
                    /\ result.value[section] = alone.value

\* _calculate_engagement alone failed, the four analyzers before it did not,
\* and generate_comprehensive_analytics raised instead of returning their
\* sections
C16_OneFailureLosesReport ==
    /\ op = "generate_comprehensive_analytics"
    /\ result = Raise("TypeError")
    /\ Eval("_calculate_engagement", <<meeting_data>>).kind = "raise"
    /\ \A section \in Sections \ {"engagement_score", "visualizations"} :
          Eval(AnalyzerOf[section], <<meeting_data>>).kind = "return"

LastEnd ==
    LET e == [k \in 1..Len(meeting_data.segments) |-> meeting_data.segments[k].end_time]
    IN e[CHOOSE b \in 1..Len(e) : \A j \in 1..Len(e) : FLeq(e[j], e[b])]

\* boundary i of 0..9: i widths of LastEnd / 9 from 0, the last one LastEnd
Boundary(i) ==
    IF i = 9 THEN LastEnd
    ELSE FMul(FromInt(i), FDiv(LastEnd, FromInt(9)))

\* the durations of the segments that start in bin i of 1..9, added up in the
\* order of the segments
StartedIn(i) ==
    LET RECURSIVE upto(_)
        upto(k) ==
            IF k = 0 THEN FZero
            ELSE IF /\ FLeq(Boundary(i - 1), meeting_data.segments[k].start_time)
                    /\ FLess(meeting_data.segments[k].start_time, Boundary(i))
            THEN FAdd(upto(k - 1), meeting_data.segments[k].duration)
            ELSE upto(k - 1)
    IN upto(Len(meeting_data.segments))

\* C18: _analyze_temporal_patterns reports 9 bins between 10 boundaries that
\* are equal widths apart from 0 to the greatest end_time; the value of a bin
\* is the sum of the whole durations of exactly the segments whose start_time
\* is at or after the bin's start and before its end.
C18_BinSumsSegmentsStartingInIt ==
    (op = "_analyze_temporal_patterns" /\ meeting_data.segments # <<>>) =>
        /\ result.kind = "return"
        /\ Len(result.value.activity_over_time) = 9
        /\ \A i \in 1..9 : result.value.activity_over_time[i] = StartedIn(i)

\* two turns, of 5 and of 15 seconds, start in one bin that is narrower than
\* the longer turn, and the bin holds 20 seconds
C18_LongTurnCountedWhole ==
    /\ op = "_analyze_temporal_patterns"
    /\ result.kind = "return"
    /\ "activity_over_time" \in DOMAIN result.value
    /\ \E i \in 1..9 :
          /\ result.value.activity_over_time[i] = FromInt(20)
          /\ FLess(FSub(Boundary(i), Boundary(i - 1)), FromInt(15))

\* C19: peak_activity_time is the start boundary of the earliest bin whose
\* activity no bin exceeds, all bins at 0 included.
C19_PeakIsEarliestFullestBin ==
    (op = "_analyze_temporal_patterns" /\ meeting_data.segments # <<>>) =>
        /\ result.kind = "return"
        /\ \E i \in 1..9 :
              /\ result.value.peak_activity_time = Boundary(i - 1)
              /\ \A j \in 1..9 :
                    /\ FLeq(result.value.activity_over_time[j],
                            result.value.activity_over_time[i])
                    /\ j < i => FLess(result.value.activity_over_time[j],
                                      result.value.activity_over_time[i])

\* two bins hold the greatest activity, 5 seconds each, and the start of the
\* earlier one is reported
C19_TiedBinsEarlierReported ==
    /\ op = "_analyze_temporal_patterns"
    /\ result.kind = "return"
    /\ "activity_over_time" \in DOMAIN result.value
    /\ \E i, j \in 1..9 :
          /\ i < j
          /\ result.value.activity_over_time[i] = FromInt(5)
          /\ result.value.activity_over_time[j] = FromInt(5)
          /\ \A k \in 1..9 : FLeq(result.value.activity_over_time[k], FromInt(5))
          /\ result.value.peak_activity_time = Boundary(i - 1)
          /\ result.value.peak_activity_time # Boundary(j - 1)

\* the key words of each remark: its first three words of more than three
\* letters, in lower case
KeyWords ==
    <<<<"budget", "plan", "needs">>, <<"hiring", "pipeline", "looks">>,
      <<"budget", "hiring", "tied">>, <<"hiring", "costs", "went">>,
      <<"customers", "like", "faster">>, <<"legal", "wants", "another">>,
      <<"marketing", "ships", "video">>, <<"server", "room", "gets">>>>

\* the remarks made, in the order they stand in the transcript
Spoken ==
    LET at(k) == CHOOSE i \in 1..Len(meeting_data.text) :
                    SubSeq(meeting_data.text, i, i + Len(Remarks[k]) - 1) = Remarks[k]
    IN [r \in 1..Cardinality(Made) |->
           CHOOSE k \in Made : Cardinality({j \in Made : at(j) < at(k)}) = r - 1]

\* two remarks share a key word
Akin(a, b) == \E i, j \in 1..3 : KeyWords[a][i] = KeyWords[b][j]

\* the cluster each remark made goes to, named by the place of the remark
\* that began it: the earliest cluster begun before with a key word of the
\* remark, or else a new one; placed holds the clusters of the first remarks
RECURSIVE ClustersOf(_, _)
ClustersOf(spoken, placed) ==
    LET i == Len(placed) + 1
        akin == {j \in 1..Len(placed) : placed[j] = j /\ Akin(spoken[j], spoken[i])}
    IN IF Len(placed) = Len(spoken) THEN placed
       ELSE ClustersOf(spoken, Append(placed, IF akin = {} THEN i
                                              ELSE CHOOSE j \in akin : \A o \in akin : j <= o))

\* C20: _cluster_topics returns at most 5 clusters, all of them when there
\* are no more than 5, in non-increasing order of frequency; each is a
\* cluster of the first-match merge in sentence order, under the key words
\* of the remark that began it and with the number of remarks that went to
\* it as frequency, which is at least 1.
C20_FirstMatchMergeTopFive ==
    op = "_cluster_topics" =>
        LET merged(spoken, cluster) ==
                LET founders == {i \in 1..Len(spoken) : cluster[i] = i}
                IN /\ Len(result.value) <= 5
                   /\ Cardinality(founders) <= 5 => Len(result.value) = Cardinality(founders)
                   /\ \A r \in 1..Len(result.value) :
                         /\ result.value[r].frequency >= 1
                         /\ r > 1 => result.value[r].frequency <= result.value[r - 1].frequency
                         /\ \A q \in 1..(r - 1) : result.value[q].topic # result.value[r].topic
                         /\ \E i \in founders :
                               /\ result.value[r].topic = PyJoin(" ", KeyWords[spoken[i]])
                               /\ result.value[r].frequency =
                                      Cardinality({j \in 1..Len(spoken) : cluster[j] = i})
            placed(spoken) == merged(spoken, ClustersOf(spoken, <<>>))
        IN result.kind = "return" /\ placed(Spoken)

\* after the budget and the hiring remark a remark akin to both went to the
\* budget cluster and one akin to hiring alone to the hiring cluster, which
\* is returned with frequency 2 like the budget cluster, behind it
C20_MergedIntoFirstMatch ==
    /\ op = "_cluster_topics"
    /\ result.kind = "return"
    /\ Spoken = <<1, 2, 3, 4>>
    /\ Len(result.value) = 2
    /\ result.value[1].topic = "budget plan needs" /\ result.value[1].frequency = 2
    /\ result.value[2].topic = "hiring pipeline looks" /\ result.value[2].frequency = 2

\* the places of the lower-case text at which a word of the set stands
Occurrences(low, words) ==
    {p \in words \X (1..Len(low)) :
        /\ p[2] + Len(p[1]) - 1 <= Len(low)
        /\ SubSeq(low, p[2], p[2] + Len(p[1]) - 1) = p[1]}

\* the words of the set that stand somewhere in the lower-case text
Present(low, words) == {w \in words : \E i \in 1..Len(low) : <<w, i>> \in Occurrences(low, {w})}

\* the label for so many positive and negative findings
Majority(positive, negative) ==
    IF positive > negative THEN "positive"
    ELSE IF negative > positive THEN "negative"
    ELSE "neutral"

PositiveSet == {"good", "great", "excellent", "positive", "success", "happy"}

NegativeSet == {"bad", "poor", "negative", "problem", "issue", "concern"}

\* C21 as stated: the sentiment trend compares how often the positive words
\* occur in the text, in any case and inside other words, with how often the
\* negative words occur.
C21_TrendByOccurrences ==
    (op = "_analyze_content" /\ result.kind = "return") =>
        LET by(low) == Majority(Cardinality(Occurrences(low, PositiveSet)),
                                Cardinality(Occurrences(low, NegativeSet)))
        IN result.value.sentiment_trend = by(PyLower(meeting_data.text))

\* C21, amended: the sentiment trend compares how many of the positive words
\* occur in the text, in any case and inside other words, each word counted
\* once however often it occurs, with how many of the negative words do:
\* more positive gives "positive", more negative "negative", a tie "neutral".
C21_TrendByWordsPresent ==
    (op = "_analyze_content" /\ result.kind = "return") =>
        LET by(low) == Majority(Cardinality(Present(low, PositiveSet)),
                                Cardinality(Present(low, NegativeSet)))
        IN result.value.sentiment_trend = by(PyLower(meeting_data.text))

\* "good" stands three times in the text, once inside "goodness", "problem"
\* and "poor" once each, and the trend is "negative"
C21_ThreeGoodsLoseToTwoWords ==
    /\ op = "_analyze_content"
    /\ result.kind = "return"
    /\ Taken = {1, 2}
    /\ Cardinality(Occurrences(PyLower(meeting_data.text), PositiveSet)) = 3
    /\ Cardinality(Occurrences(PyLower(meeting_data.text), NegativeSet)) = 2
    /\ result.value.sentiment_trend = "negative"

\* the returned samples, and the sentences they were taken from
SamplesNow == result.value.keyword_evolution

SentencesNow == stripped_sentences(meeting_data.text, 0)

\* the samples stand at 0, n div 3, 2n div 3 and n - 1, in that order, each
\* with at most three tokens, all longer than four characters
SampledAtThirds(samples, n) ==
    /\ Len(samples) = 4
    /\ <<samples[1].position, samples[2].position,
         samples[3].position, samples[4].position>> = <<0, n \div 3, (2 * n) \div 3, n - 1>>
    /\ \A k \in 1..4 :
          /\ samples[k].position \in 0..(n - 1)
          /\ k > 1 => samples[k - 1].position <= samples[k].position
          /\ Len(samples[k].keywords) <= 3
          /\ \A j \in 1..Len(samples[k].keywords) : Len(samples[k].keywords[j]) > 4

\* C22 as stated: for n >= 1 sentences the samples stand at the indices 0,
\* n div 3, 2n div 3 and n - 1 in that order, each with at most 3 tokens
\* longer than 4 characters and a preview of at most 50 characters.
C22_SamplesWithShortPreview ==
    (op = "_analyze_content" /\ result.kind = "return") =>
        /\ SampledAtThirds(SamplesNow, Len(SentencesNow))
        /\ \A k \in 1..Len(SamplesNow) : Len(SamplesNow[k].sentence_preview) <= 50

\* C22, amended: for n >= 1 sentences the samples stand at the indices 0,
\* n div 3, 2n div 3 and n - 1 in that order, each with at most 3 tokens
\* longer than 4 characters; the preview is the sentence itself when it has
\* at most 50 characters, and otherwise its first 50 characters followed by
\* "...", 53 characters in all.
C22_SamplesWithMarkedPreview ==
    (op = "_analyze_content" /\ result.kind = "return") =>
        /\ SampledAtThirds(SamplesNow, Len(SentencesNow))
        /\ \A k \in 1..Len(SamplesNow) :
              LET shown(sentence, preview) ==
                      IF Len(sentence) <= 50 THEN preview = sentence
                      ELSE /\ Len(preview) = 53
                           /\ SubSeq(preview, 1, 50) = SubSeq(sentence, 1, 50)
                           /\ SubSeq(preview, 51, 53) = "..."
              IN shown(SentencesNow[SamplesNow[k].position + 1],
                       SamplesNow[k].sentence_preview)

\* four sentences sampled at four different indices, the last one long: three
\* of its tokens are kept and its preview has 53 characters
C22_LongSentencePreviewed ==
    /\ op = "_analyze_content"
    /\ result.kind = "return"
    /\ Len(SentencesNow) = 4
    /\ SamplesNow[2].position = 1
    /\ SamplesNow[3].position = 2
    /\ Len(SamplesNow[4].keywords) = 3
    /\ Len(SentencesNow[4]) > 50
    /\ Len(SamplesNow[4].sentence_preview) = 53

\* the phrases that announce a decision, in the order of their declaration
Announcements == <<"decided to ", "agreed that ", "will ", "should ", "going to ">>

\* where the phrase stands in the text, in any case, with something to capture
AnnouncedAt(phrase, text, low) ==
    {p \in 1..Len(text) :
        /\ p + Len(phrase) <= Len(text)
        /\ SubSeq(low, p, p + Len(phrase) - 1) = phrase
        /\ CharAt(text, p + Len(phrase)) \notin Terminators}

\* the matches of one phrase: in each stretch between terminators the first
\* place where it stands, with the rest of the stretch as the captured group
Captured(phrase, text, low) ==
    LET at == AnnouncedAt(phrase, text, low)
        open(q, p) == \A k \in q..p : CharAt(text, k) \notin Terminators
        rest(p) == CHOOSE j \in p..Len(text) :
                      /\ open(p, j)
                      /\ j = Len(text) \/ CharAt(text, j + 1) \in Terminators
    IN {<<p, SubSeq(text, p + Len(phrase), rest(p + Len(phrase)))>> :
           p \in {p \in at : \A q \in at : q < p => ~open(q, p)}}

\* the captured groups in the order of the text
RECURSIVE InTextOrder(_)
InTextOrder(captured) ==
    IF captured = {} THEN <<>>
    ELSE LET next == CHOOSE c \in captured : \A o \in captured : c[1] <= o[1]
         IN <<next[2]>> \o InTextOrder(captured \ {next})

\* every match of every phrase, phrase after phrase in the order of declaration
RECURSIVE AllDecisions(_, _, _)
AllDecisions(k, text, low) ==
    IF k > Len(Announcements) THEN <<>>
    ELSE InTextOrder(Captured(Announcements[k], text, low)) \o AllDecisions(k + 1, text, low)

\* C23: the decision points are the first 5 of the matches of the patterns
\* "decided to", "agreed that", "will", "should", "going to", concatenated in
\* that order of declaration, each pattern's matches in text order; there are
\* never more than 5, and a match of an earlier pattern stands before every
\* match of a later one wherever they are in the text.
C23_FirstFiveInDeclarationOrder ==
    (op = "_analyze_content" /\ result.kind = "return") =>
        LET first_five(all) == SubSeq(all, 1, IF Len(all) < 5 THEN Len(all) ELSE 5)
        IN /\ result.value.decision_points
                 = first_five(AllDecisions(1, meeting_data.text, PyLower(meeting_data.text)))
           /\ Len(result.value.decision_points) <= 5

\* six matches, of which the sixth is dropped; "ship the beta" comes first
\* although "decided to" stands in the text after both "will" and "should"
C23_SixthDroppedEarlierPatternFirst ==
    /\ op = "_analyze_content"
    /\ result.kind = "return"
    /\ Len(AllDecisions(1, meeting_data.text, PyLower(meeting_data.text))) = 6
    /\ Len(result.value.decision_points) = 5
    /\ result.value.decision_points[1] = "ship the beta"
    /\ result.value.decision_points[5] = "we wait"
    /\ \E p \in AnnouncedAt("decided to ", meeting_data.text, PyLower(meeting_data.text)) :
          \A q \in AnnouncedAt("should ", meeting_data.text, PyLower(meeting_data.text)) : q < p

\* the three sets of recommendations
ImproveEngagement ==
    <<"Consider shorter, more focused meetings",
      "Encourage more participant interaction",
      "Prepare agenda to stay on topic">>

GoodStructure ==
    <<"Good meeting structure, could improve participation balance",
      "Consider time management for more efficient discussions">>

ExcellentEngagement ==
    <<"Excellent meeting engagement",
      "Maintain current participation levels">>

\* the score at hand in hundredths
Hundredths == CHOOSE k \in 0..(ScoreSteps + 1) : Dec(k, 2) = score

\* C24 as stated: below 0.3 the three "improve engagement" suggestions,
\* between 0.3 and 0.7 the two "good structure" suggestions, above 0.7 the
\* two "excellent" suggestions, the boundary values 0.3 and 0.7 belonging
\* to the lower bracket.
C24_BoundariesInLowerBracket ==
    (op = "_generate_engagement_recommendations" /\ result.kind = "return") =>
        result.value = IF Hundredths <= 30 THEN ImproveEngagement
                       ELSE IF Hundredths <= 70 THEN GoodStructure
                       ELSE ExcellentEngagement

\* C24, amended: below 0.3 the three "improve engagement" suggestions, from
\* 0.3 to below 0.7 the two "good structure" suggestions, from 0.7 on the
\* two "excellent" suggestions: the boundary values 0.3 and 0.7 belong to
\* the upper bracket.
C24_BoundariesInUpperBracket ==
    (op = "_generate_engagement_recommendations" /\ result.kind = "return") =>
        result.value = IF Hundredths < 30 THEN ImproveEngagement
                       ELSE IF Hundredths < 70 THEN GoodStructure
                       ELSE ExcellentEngagement

\* the score 0.3 gets the "good structure" suggestions
C24_ThreeTenthsIsGoodStructure ==
    /\ op = "_generate_engagement_recommendations"
    /\ score = Dec(3, 1)
    /\ result = Ret(GoodStructure)

\* the date matches of the text the service searches: transcript and summary
DatesFound ==
    re_findall_each(date_patterns, transcript_of(meeting_data) \o " " \o summary_of(meeting_data))

\* the weekday of the call, from a suggested date and its distance in days
CalledOn(date) == (date.weekday + 7 - date.days) % 7

\* C25: the i-th event's suggested_date is the i-th extracted date, now + 7
\* days, when the text has more than i date matches; otherwise it is the
\* earliest day from tomorrow on that is no Saturday or Sunday, which is 1
\* to 3 days after now and never on a weekend.
C25_DateFromMatchOrNextWeekday ==
    \A k \in 1..Len(EventsNow) :
        LET suggested(date) ==
                IF Len(DatesFound) > k - 1 THEN date.days = 7
                ELSE /\ date.days \in 1..3
                     /\ date.weekday \notin {5, 6}
                     /\ \A earlier \in 1..(date.days - 1) :
                           (CalledOn(date) + earlier) % 7 \in {5, 6}
        IN suggested(EventsNow[k].suggested_date)

\* called on a Friday for a text with two date matches and three topics: two
\* events a week ahead, the third on the Monday three days ahead
C25_FridayFallbackIsMonday ==
    /\ Len(EventsNow) = 3
    /\ Len(DatesFound) = 2
    /\ EventsNow[1].suggested_date = [days |-> 7, weekday |-> 4]
    /\ EventsNow[2].suggested_date = [days |-> 7, weekday |-> 4]
    /\ EventsNow[3].suggested_date = [days |-> 3, weekday |-> 0]

\* how often the analyzer ran during the call of the orchestrator on the
\* record at hand
TimesRun(method) ==
    LET ran(calls) == Cardinality({k \in 1..Len(calls) : calls[k] = method})
    IN ran(calls_of("generate_comprehensive_analytics", meeting_data))

\* C26 as stated: during one call of generate_comprehensive_analytics the
\* meeting metrics and the participant analysis are each computed once and
\* no more, the engagement scorer using what was computed.
C26_MetricsAndParticipantsOnce ==
    op = "generate_comprehensive_analytics" =>
        /\ TimesRun("_calculate_meeting_metrics") <= 1
        /\ TimesRun("_analyze_participants") <= 1
        /\ TimesRun("_calculate_engagement") = 1 =>
              /\ TimesRun("_calculate_meeting_metrics") = 1
              /\ TimesRun("_analyze_participants") = 1

\* the orchestrator was called on a record with a transcript and segments:
\* the engagement scorer ran, and metrics and participants were computed twice
C26_ScorerComputesAgain ==
    /\ op = "generate_comprehensive_analytics"
    /\ meeting_data.text # ""
    /\ meeting_data.segments # <<>>
    /\ TimesRun("_calculate_engagement") = 1
    /\ TimesRun("_calculate_meeting_metrics") = 2
    /\ TimesRun("_analyze_participants") = 2

\* every segment of the record at hand has 0 <= start_time <= end_time and
\* duration = end_time - start_time
WellFormed ==
    \A k \in 1..Len(meeting_data.segments) :
        LET ok(g) == /\ FLeq(FZero, g.start_time)
                     /\ FLeq(g.start_time, g.end_time)
                     /\ g.duration = FSub(g.end_time, g.start_time)
        IN ok(meeting_data.segments[k])

\* the bins of 1..9 in which segment k is counted
BinsOf(k) ==
    {i \in 1..9 : /\ FLeq(Boundary(i - 1), meeting_data.segments[k].start_time)
                  /\ FLess(meeting_data.segments[k].start_time, Boundary(i))}

\* the numbers of the sequence added up from the left
RECURSIVE Total(_)
Total(xs) == IF xs = <<>> THEN FZero ELSE FAdd(Total(SubSeq(xs, 1, Len(xs) - 1)), xs[Len(xs)])

EventsWith(summary) ==
    Eval("extract_events_free", <<[meeting_data EXCEPT !.summary = summary], 0, "0">>).value

\* C29: two records with the same transcript and different summaries yield
\* the same number of events with the same titles and descriptions; the
\* summary bears on the suggested dates and times only.
C29_TitlesFromTranscriptAlone ==
    (op = "extract_events_free" /\ result.kind = "return") =>
        \A summary \in Summaries :
            LET same(events, others) ==
                    /\ Len(events) = Len(others)
                    /\ \A k \in 1..Len(events) :
                          /\ events[k].title = others[k].title
                          /\ events[k].description = others[k].description
                          /\ events[k].duration_minutes = others[k].duration_minutes
                          /\ events[k].confidence = others[k].confidence
                          /\ events[k].type = others[k].type
                          /\ events[k].participants = others[k].participants
            IN same(result.value, EventsWith(summary))

\* a record whose summary names a date, a time and something to review: its
\* events have the titles they have without the summary, none is about the
\* review of the summary, and the first is given the summary's date and time
C29_SummaryGivesDateNotTitle ==
    /\ op = "extract_events_free"
    /\ result.kind = "return"
    /\ meeting_data.summary = "Review it on 3/14/25 at 10:30."
    /\ DatesFound = <<"3/14/25", "on 3", "at 10">>
    /\ Len(result.value) = 3
    /\ \A k \in 1..3 : result.value[k].title = EventsWith("")[k].title
    /\ result.value[1].title = "Discussion: Action Items"
    /\ result.value[1].suggested_date.days = 7
    /\ result.value[1].suggested_time = "10:30"
    /\ EventsWith("")[1].suggested_date.days < 7
    /\ EventsWith("")[1].suggested_time = "10:00 AM"

\* C28 as stated: when the analytics engine fails, advanced_analytics is an
\* error object, the calendar extraction still runs, and the request is
\* answered with 200 and a body that holds advanced_analytics and
\* calendar_suggestions; 500 is answered only for a failure outside the two
\* guarded steps.
C28_AnalyticsFailureContained ==
    (op = "analyze_audio_free" /\ "advanced_analytics" \in DOMAIN meeting_data
        /\ "error" \in DOMAIN meeting_data.advanced_analytics) =>
        /\ "calendar_suggestions" \in DOMAIN meeting_data
        /\ result.value.status_code = 200
        /\ "advanced_analytics" \in DOMAIN result.value.content
        /\ "calendar_suggestions" \in DOMAIN result.value.content

\* both service files are loaded: the analytics engine has failed and left
\* its error object, the calendar service has suggested three events, and
\* the request is answered with 500
C28_SuggestionsAnsweredWith500 ==
    /\ op = "analyze_audio_free"
    /\ services = AllLoaded
    /\ meeting_data.advanced_analytics = [error |-> "TypeError"]
    /\ Len(meeting_data.calendar_suggestions) = 3
    /\ result.value = [status_code |-> 500, content |-> [error |-> "TypeError"]]

====
